---- MODULE Spec2Model ----
(***************************************************************************)
(* Verification model of the Arbhunter core: the two exchange clients      *)
(* (src/kalshi_client.py, src/polymarket_client.py, src/base_client.py),   *)
(* their normalizers and the arbitrage detector (src/detector.py).         *)
(*                                                                         *)
(* The module holds several specifications over one set of variables.     *)
(* Each specification activates one component and keeps the variables of   *)
(* the other components at their idle values:                              *)
(*   SpecPrices    PolymarketClient.get_market_prices                      *)
(*   SpecOps       the public operations of both clients (pagination)      *)
(*   SpecLoop      the pagination loops against an arbitrary server        *)
(*   SpecReq       one call of _make_request / _make_post_request          *)
(*   SpecConc      two concurrent calls on one client instance             *)
(*   SpecSeq       calls made one after another on one client instance     *)
(*   SpecNorm      the two normalizers and the batch conversions           *)
(*   SpecDetector  ArbitrageDetector                                       *)
(*   SpecShared    concurrent callers of one ArbitrageDetector             *)
(*   SpecAuth      KalshiClient: key material and request signing          *)
(*   SpecScan      one scan of scanner_demo.main                           *)
(*   SpecVpn       NordVPNManager (src/nordvpn_manager.py)                 *)
(*                                                                         *)
(* Conventions.  An optional number is a sequence: <<>> is None, <<v>> is  *)
(* the value v.  Prices are fixed-point numbers in units of 1/Unit, so     *)
(* 1.0 is Unit and a cents value c is the canonical price (c*Unit)/100.    *)
(* Times are milliseconds.  A text is a sequence of one-character strings. *)
(* Percentages are counted in hundredths of a percent.                     *)
(***************************************************************************)
EXTENDS Integers, Sequences, FiniteSets, TLC

VARIABLES
  \* ---- PolymarketClient.get_market_prices
  token_ids,      \* the argument: a sequence of token ids
  pr_pc,          \* position in get_market_prices
  i,              \* loop variable of the chunk loop
  chunk,          \* the variable chunk
  payload,        \* the variable payload
  tok_idx,        \* position of the loop `for token_id in chunk`
  all_prices,     \* the dict all_prices: a function token -> price entry
  post_log,       \* every payload handed to _make_post_request, in order
  post_outcomes,  \* the outcome of each of those requests, in order
  chunk_delays,   \* number of inter-chunk sleeps performed
  prices_ret,     \* the value returned
  \* ---- one call of _make_request / _make_post_request
  rq_client,      \* "kalshi", "poly_get" or "poly_post"
  rq_pc,          \* position in the call
  attempt,        \* the loop variable attempt (1 for the Kalshi client)
  max_retries,    \* the parameter max_retries
  vpn_required,   \* PolymarketClient.vpn_required
  vpn_connected,  \* what vpn_manager.get_status() reports at this moment
  rq_sends,       \* every network attempt: [attempt, vpn: vpn_connected then]
  rq_responses,   \* the response to each attempt
  rq_sleeps,      \* every asyncio.sleep of the call: [kind, ms]
  rq_error,       \* the exception that reached the caller, or None
  \* ---- concurrent calls of _make_request on one client instance
  cc_client,      \* "kalshi" or "polymarket"
  now,            \* time.time(), in ms
  last_request_time,  \* self._last_request_time, in ms
  request_count,  \* self._request_count
  task_pc,        \* position of each calling task
  wake,           \* the time the sleep of each task ends
  cc_sends,       \* every network send: [task, at]
  \* ---- the normalizers and the batch conversions
  nm_pc,          \* position: ready, converted, batch, batch_done
  nm_platform,    \* "kalshi" or "polymarket"
  nm_raw,         \* the raw record handed to the normalizer
  nm_prices,      \* the price data handed to the Polymarket normalizer
  nm_result,      \* what the normalizer did: [raised, market]
  nm_batch,       \* the raw records of a batch conversion
  nm_idx,         \* position of the conversion loop in the batch
  nm_out,         \* the list a batch conversion builds
  nm_keyword,     \* the keyword of a get_markets_by_keyword call
  nm_dict,        \* the raw record object as the normalizer has left it
  nm_second,      \* what a second call on the same raw record did
  \* ---- a public operation of a client
  op_client,      \* "kalshi" or "polymarket"
  op_name,        \* the operation called
  op_pc,          \* position: ready, fetching, pricing, done
  op_limit,       \* the parameter limit of get_markets (0: None)
  op_source,      \* the pages the server holds
  op_cursor,      \* the variable cursor / next_cursor ("": none)
  op_fetches,     \* the cursor carried by every page request, in order
  op_all_markets, \* len(all_markets)
  page_count,     \* the variable page_count, counted modulo MaxFetches
  op_failed,      \* the request that failed: "no", "request" or "prices"
  op_result,      \* what the caller got: [kind, n]
  \* ---- ArbitrageDetector
  dt_pc,          \* position: ready, done
  dt_outcomes,    \* market.outcomes of a _get_best_price call
  dt_best,        \* the value _get_best_price returned
  dt_op,          \* the method called ("": none yet)
  dt_input,       \* the arguments of the call
  dt_output,      \* the value the call returned
  min_profit_percentage, \* the detector's field of that name
  default_investment,    \* the detector's field of that name
  dt_calls,       \* the calls of concurrent callers: [pc, op, given, object, output]
  \* ---- KalshiClient: key material and request signing
  au_pc,          \* the client: new, constructed, open (session created)
  au_api_key,     \* self.api_key is set
  au_private_key, \* self.private_key is loaded
  au_session_headers, \* the auth headers among the session's default headers
  au_now,         \* time.time(), in ms
  au_signed,      \* the number of signing operations made so far
  au_calls,       \* the _make_request calls made, in order
  au_sent,        \* the requests put on the wire, in order
  \* ---- scanner_demo.main
  sc_pc,          \* position: start, entered, kalshi, between, poly, fetched, reported
  sc_limit,       \* args.limit
  sc_kalshi,      \* the Kalshi fetch: pending, running, returned, raised
  sc_poly,        \* the Polymarket fetch: pending, running, returned, raised
  sc_found,       \* what the two fetches returned: [kalshi, poly], <<>> for none
  sc_kalshi_markets, \* len(kalshi_markets)
  sc_poly_markets,   \* len(poly_markets)
  \* ---- NordVPNManager
  vp_pc,          \* position: idle, loop, returned, raised
  vp_op,          \* the method called ("": none yet)
  is_connected,   \* self.is_connected
  current_server, \* self.current_server
  vp_country,     \* the argument country
  vp_max_retries, \* the argument max_retries
  vp_attempt,     \* the loop variable attempt
  vp_commands,    \* the commands run with subprocess.run, in order
  vp_connects,    \* the number of self.connect calls made
  vp_sleeps,      \* the arguments of time.sleep, in order (seconds)
  vp_status,      \* what the last get_status returned (<<>>: not called)
  vp_result       \* the value the method returned

pricesVars == <<token_ids, pr_pc, i, chunk, payload, tok_idx, all_prices,
                post_log, post_outcomes, chunk_delays, prices_ret>>

reqVars == <<rq_client, rq_pc, attempt, max_retries, vpn_required,
             vpn_connected, rq_sends, rq_responses, rq_sleeps, rq_error>>

concVars == <<cc_client, now, last_request_time, request_count, task_pc, wake,
              cc_sends>>

normVars == <<nm_pc, nm_platform, nm_raw, nm_prices, nm_result, nm_batch,
              nm_idx, nm_out, nm_keyword, nm_dict, nm_second>>

opsVars == <<op_client, op_name, op_pc, op_limit, op_source, op_cursor,
             op_fetches, op_all_markets, page_count, op_failed, op_result>>

detVars == <<dt_pc, dt_outcomes, dt_best, dt_op, dt_input, dt_output,
             min_profit_percentage, default_investment, dt_calls>>

authVars == <<au_pc, au_api_key, au_private_key, au_session_headers, au_now,
              au_signed, au_calls, au_sent>>

scanVars == <<sc_pc, sc_limit, sc_kalshi, sc_poly, sc_found, sc_kalshi_markets,
              sc_poly_markets>>

vpnVars == <<vp_pc, vp_op, is_connected, current_server, vp_country,
             vp_max_retries, vp_attempt, vp_commands, vp_connects, vp_sleeps,
             vp_status, vp_result>>

vars == <<pricesVars, reqVars, concVars, normVars, opsVars, detVars, authVars,
          scanVars, vpnVars>>

\* What each component leaves alone.
notPrices == <<reqVars, concVars, normVars, opsVars, detVars, authVars,
  scanVars, vpnVars>>
notReq == <<pricesVars, concVars, normVars, opsVars, detVars, authVars,
  scanVars, vpnVars>>
notConc == <<pricesVars, reqVars, normVars, opsVars, detVars, authVars,
  scanVars, vpnVars>>
notNorm == <<pricesVars, reqVars, concVars, opsVars, detVars, authVars,
  scanVars, vpnVars>>
notOps == <<pricesVars, reqVars, concVars, normVars, detVars, authVars,
  scanVars, vpnVars>>
notDet == <<pricesVars, reqVars, concVars, normVars, opsVars, authVars,
  scanVars, vpnVars>>
notAuth == <<pricesVars, reqVars, concVars, normVars, opsVars, detVars,
  scanVars, vpnVars>>
notScan == <<pricesVars, reqVars, concVars, normVars, opsVars, detVars, authVars,
  vpnVars>>
notVpn == <<pricesVars, reqVars, concVars, normVars, opsVars, detVars, authVars,
  scanVars>>

-----------------------------------------------------------------------------
\* Shared values

None == <<>>
Some(v) == <<v>>
IsNone(x) == x = <<>>
Val(x) == x[1]

\* Fixed-point unit of the canonical probability scale: 1.0 is Unit.
Unit == 100 * 100

Min2(a, b) == IF a <= b THEN a ELSE b

Range(s) == {s[k] : k \in 1..Len(s)}

-----------------------------------------------------------------------------
\* The idle values of each component

PricesIdle ==
  /\ token_ids = <<>>
  /\ pr_pc = "idle"
  /\ i = 0
  /\ chunk = <<>>
  /\ payload = <<>>
  /\ tok_idx = 0
  /\ all_prices = <<>>
  /\ post_log = <<>>
  /\ post_outcomes = <<>>
  /\ chunk_delays = 0
  /\ prices_ret = "pending"

ReqIdle ==
  /\ rq_client = "none"
  /\ rq_pc = "idle"
  /\ attempt = 0
  /\ max_retries = 0
  /\ vpn_required = FALSE
  /\ vpn_connected = FALSE
  /\ rq_sends = <<>>
  /\ rq_responses = <<>>
  /\ rq_sleeps = <<>>
  /\ rq_error = None

\* Number of tasks that call one client instance concurrently.
NumTasks == 2

Tasks == 1..NumTasks

ConcIdle ==
  /\ cc_client = "none"
  /\ now = 0
  /\ last_request_time = 0
  /\ request_count = 0
  /\ task_pc = [t \in Tasks |-> "idle"]
  /\ wake = [t \in Tasks |-> 0]
  /\ cc_sends = <<>>

NormIdle ==
  /\ nm_pc = "idle"
  /\ nm_platform = "none"
  /\ nm_raw = <<>>
  /\ nm_prices = <<>>
  /\ nm_result = <<>>
  /\ nm_batch = <<>>
  /\ nm_idx = 0
  /\ nm_out = <<>>
  /\ nm_keyword = <<>>
  /\ nm_dict = <<>>
  /\ nm_second = <<>>

OpsIdle ==
  /\ op_client = "none"
  /\ op_name = "none"
  /\ op_pc = "idle"
  /\ op_limit = 0
  /\ op_source = <<>>
  /\ op_cursor = ""
  /\ op_fetches = <<>>
  /\ op_all_markets = 0
  /\ page_count = 0
  /\ op_failed = "no"
  /\ op_result = <<>>

DetIdle ==
  /\ dt_pc = "idle"
  /\ dt_outcomes = <<>>
  /\ dt_best = None
  /\ dt_op = ""
  /\ dt_input = <<>>
  /\ dt_output = None
  /\ min_profit_percentage = 0
  /\ default_investment = 0
  /\ dt_calls = <<>>

AuthIdle ==
  /\ au_pc = "idle"
  /\ au_api_key = FALSE
  /\ au_private_key = FALSE
  /\ au_session_headers = None
  /\ au_now = 0
  /\ au_signed = 0
  /\ au_calls = <<>>
  /\ au_sent = <<>>

ScanIdle ==
  /\ sc_pc = "idle"
  /\ sc_limit = 0
  /\ sc_kalshi = "pending"
  /\ sc_poly = "pending"
  /\ sc_found = <<>>
  /\ sc_kalshi_markets = 0
  /\ sc_poly_markets = 0

VpnIdle ==
  /\ vp_pc = "off"
  /\ vp_op = ""
  /\ is_connected = FALSE
  /\ current_server = None
  /\ vp_country = None
  /\ vp_max_retries = 0
  /\ vp_attempt = 0
  /\ vp_commands = <<>>
  /\ vp_connects = 0
  /\ vp_sleeps = <<>>
  /\ vp_status = <<>>
  /\ vp_result = <<>>

-----------------------------------------------------------------------------
\* PolymarketClient.get_market_prices (src/polymarket_client.py:590-667)

\* Largest number of token ids passed to get_market_prices.
MaxTokens == 25

\* chunk_size = 10
ChunkSize == 10

\* token_ids[a:b], Python slice with 0-based bounds
Slice(s, a, b) == [k \in 1..(Min2(b, Len(s)) - a) |-> s[a + k]]

\* The price entry the exchange holds for a token: {side -> price}.
PriceEntry(t) == [BUY |-> 4000 + t, SELL |-> 4100 + t]

\* What the exchange can answer to one POST 'prices', as seen by the caller of
\* _make_post_request: "fail" (the request raised after its retries), "empty"
\* (a falsy body), "full" (an entry for every token of the payload), "first"
\* (an entry for the first token of the payload only).
PostOutcomes == {"fail", "empty", "full", "first"}

\* Largest number of requests of one call that do not answer in full.
MaxBadPosts == 2

BadPosts(outcomes) == Len(SelectSeq(outcomes, LAMBDA o : o # "full"))

PayloadTokens(p) == {p[k].token_id : k \in 1..Len(p)}

ResponseKeys(p, outcome) ==
  CASE outcome = "full"  -> PayloadTokens(p)
    [] outcome = "first" -> {p[1].token_id}
    [] OTHER             -> {}

PricesInit ==
  /\ token_ids = <<>>
  /\ pr_pc = "ready"
  /\ i = 0
  /\ chunk = <<>>
  /\ payload = <<>>
  /\ tok_idx = 0
  /\ all_prices = <<>>
  /\ post_log = <<>>
  /\ post_outcomes = <<>>
  /\ chunk_delays = 0
  /\ prices_ret = "pending"

\* The call: `if not token_ids: return {}`, else chunk_size and all_prices are
\* set and the chunk loop starts.
GetMarketPricesCall(n) ==
  /\ pr_pc = "ready"
  /\ token_ids' = [k \in 1..n |-> k]
  /\ IF n = 0
       THEN /\ pr_pc' = "done"
            /\ prices_ret' = "empty_dict"
       ELSE /\ pr_pc' = "chunking"
            /\ prices_ret' = prices_ret
  /\ UNCHANGED <<i, chunk, payload, tok_idx, all_prices, post_log,
                 post_outcomes, chunk_delays>>
  /\ UNCHANGED notPrices

\* One iteration of `for i in range(0, len(token_ids), chunk_size)`: its body
\* is lines 610-611 only (the assignment of chunk and a log line).
ChunkLoopBody(start) == Slice(token_ids, start, start + ChunkSize)

ChunkLoopStep ==
  /\ pr_pc = "chunking"
  /\ LET start == IF chunk = <<>> THEN 0 ELSE i + ChunkSize
     IN IF start < Len(token_ids)
          THEN /\ i' = start
               /\ chunk' = ChunkLoopBody(start)
               /\ UNCHANGED <<pr_pc, payload, tok_idx>>
          ELSE \* the loop is over: payload = [] and the second loop starts
               /\ payload' = <<>>
               /\ tok_idx' = 1
               /\ pr_pc' = "posting"
               /\ UNCHANGED <<i, chunk>>
  /\ UNCHANGED <<token_ids, all_prices, post_log, post_outcomes, chunk_delays,
                 prices_ret>>
  /\ UNCHANGED notPrices

\* The merge of one response into all_prices (lines 643-649).
MergePrices(prices, keys) ==
  LET hit == {t \in Range(chunk) : t \in keys}
  IN [t \in (DOMAIN prices) \cup hit |->
        IF t \in hit THEN PriceEntry(t) ELSE prices[t]]

\* One iteration of `for token_id in chunk` (lines 617-660): two entries are
\* appended to payload, the payload is posted, the response is merged, and the
\* inter-chunk delay is slept when i + chunk_size < len(token_ids).
PostStep(outcome) ==
  /\ pr_pc = "posting"
  /\ tok_idx <= Len(chunk)
  /\ outcome = "full" \/ BadPosts(post_outcomes) < MaxBadPosts
  /\ LET token_id == chunk[tok_idx]
         sent == payload \o <<[token_id |-> token_id, side |-> "BUY"],
                              [token_id |-> token_id, side |-> "SELL"]>>
     IN /\ payload' = sent
        /\ post_log' = Append(post_log, sent)
        /\ post_outcomes' = Append(post_outcomes, outcome)
        /\ all_prices' = IF outcome \in {"fail", "empty"}
                           THEN all_prices
                           ELSE MergePrices(all_prices, ResponseKeys(sent, outcome))
        /\ chunk_delays' = IF outcome \notin {"fail", "empty"}
                              /\ i + ChunkSize < Len(token_ids)
                             THEN chunk_delays + 1 ELSE chunk_delays
  /\ tok_idx' = tok_idx + 1
  /\ UNCHANGED <<token_ids, pr_pc, i, chunk, prices_ret>>
  /\ UNCHANGED notPrices

\* `return all_prices if all_prices else None`
PricesReturn ==
  /\ pr_pc = "posting"
  /\ tok_idx > Len(chunk)
  /\ pr_pc' = "done"
  /\ prices_ret' = IF DOMAIN all_prices = {} THEN "None" ELSE "dict"
  /\ UNCHANGED <<token_ids, i, chunk, payload, tok_idx, all_prices, post_log,
                 post_outcomes, chunk_delays>>
  /\ UNCHANGED notPrices

PricesNext ==
  \/ \E n \in 0..MaxTokens : GetMarketPricesCall(n)
  \/ ChunkLoopStep
  \/ \E o \in PostOutcomes : PostStep(o)
  \/ PricesReturn

-----------------------------------------------------------------------------
\* One call of the request layer:
\*   KalshiClient._make_request          src/kalshi_client.py:118-213
\*   PolymarketClient._make_request      src/polymarket_client.py:48-109
\*   PolymarketClient._make_post_request src/polymarket_client.py:111-171

\* settings.MAX_CONCURRENT_REQUESTS: the configured value is not part of the
\* sources at hand; the model is checked for this value and the next one.
MaxConcurrentRequests == 5

\* min_interval = 1.0 / settings.MAX_CONCURRENT_REQUESTS, in milliseconds
MinIntervalMs == 1000 \div MaxConcurrentRequests

\* max_retries: int = 3
DefaultMaxRetries == 3

\* int(response.headers.get('Retry-After', 60)), seconds
DefaultRetryAfter == 60

\* await asyncio.sleep(0.1), milliseconds
PolyRateSleepMs == 100

\* wait_time = 2 * attempt, seconds
BackoffFactor == 2

RqClients == {"kalshi", "poly_get", "poly_post"}

IsPoly(c) == c \in {"poly_get", "poly_post"}

\* What one network attempt can end in: an HTTP response (with or without a
\* Retry-After header, with a body that parses as JSON or not) or a transport
\* failure (aiohttp.ClientError, asyncio.TimeoutError).
Responses ==
  { [kind |-> "http", status |-> 200, retry_after |-> None, json_ok |-> TRUE],
    [kind |-> "http", status |-> 200, retry_after |-> None, json_ok |-> FALSE],
    [kind |-> "http", status |-> 429, retry_after |-> None, json_ok |-> TRUE],
    [kind |-> "http", status |-> 429, retry_after |-> Some(5), json_ok |-> TRUE],
    [kind |-> "http", status |-> 404, retry_after |-> None, json_ok |-> TRUE],
    [kind |-> "http", status |-> 500, retry_after |-> None, json_ok |-> TRUE],
    [kind |-> "transport", status |-> 0, retry_after |-> None, json_ok |-> FALSE] }

\* retry_after = int(response.headers.get('Retry-After', 60)), in ms
RetryAfterMs(r) ==
  1000 * (IF IsNone(r.retry_after) THEN DefaultRetryAfter ELSE Val(r.retry_after))

IsRateLimited(r) == r.kind = "http" /\ r.status = 429
IsHttpError(r) == r.kind = "http" /\ r.status >= 400 /\ r.status # 429
IsSuccess(r) == r.kind = "http" /\ r.status < 400 /\ r.json_ok

\* The exception one failed attempt raises inside the try block.
\*   429:          "Rate limit exceeded" (no status, no body)
\*   status >= 400: "HTTP {status}: {error_text}"
\*   otherwise:    the JSON or transport failure
AttemptError(c, r) ==
  CASE IsRateLimited(r) ->
         [type |-> IF c = "kalshi" THEN "APIError" ELSE "Exception",
          what |-> "rate_limit", status |-> None, has_body |-> FALSE]
    [] IsHttpError(r) ->
         [type |-> IF c = "kalshi" THEN "APIError" ELSE "Exception",
          what |-> "http", status |-> Some(r.status), has_body |-> TRUE]
    [] OTHER ->
         [type |-> IF c = "kalshi" THEN "APIError" ELSE "Exception",
          what |-> IF r.kind = "transport" THEN "transport" ELSE "json",
          status |-> None, has_body |-> FALSE]

\* The sleeps one failed attempt performs before its exception is raised.
AttemptSleeps(r) ==
  IF IsRateLimited(r)
    THEN <<[kind |-> "retry_after", ms |-> RetryAfterMs(r)]>>
    ELSE <<>>

\* A backoff that waits the same time after every failed attempt.
BackoffMsFlat(a) == 1000 * BackoffFactor

\* wait_time = 2 * attempt
BackoffMs(a) == 1000 * BackoffFactor * a

ReqInit ==
  /\ rq_client = "none"
  /\ rq_pc = "ready"
  /\ attempt = 0
  /\ max_retries = 0
  /\ vpn_required \in BOOLEAN
  /\ vpn_connected \in BOOLEAN
  /\ rq_sends = <<>>
  /\ rq_responses = <<>>
  /\ rq_sleeps = <<>>
  /\ rq_error = None

\* A call gate that checks the session only and never queries the VPN status.
PolyGateSessionOnly(session_open) ==
  IF ~session_open THEN "no_session" ELSE "pass"

\* The part of the Polymarket call before its retry loop: the session check,
\* then one query of vpn_manager.get_status() when vpn_required.
PolyGate(session_open) ==
  IF ~session_open THEN "no_session"
  ELSE IF vpn_required /\ ~vpn_connected THEN "no_vpn"
  ELSE "pass"

\* The call of PolymarketClient._make_request / _make_post_request up to the
\* first iteration of `for attempt in range(1, max_retries + 1)`.
PolyCall(c, m, session_open) ==
  /\ rq_pc = "ready"
  /\ IsPoly(c)
  /\ rq_client' = c
  /\ max_retries' = m
  /\ LET gate == PolyGate(session_open)
     IN IF gate # "pass"
          THEN /\ rq_pc' = "raised"
               /\ rq_error' = Some([type |-> "RuntimeError", what |-> gate,
                                    status |-> None, has_body |-> FALSE])
               /\ attempt' = 0
          ELSE IF m = 0
          THEN \* the loop has no iteration: the function falls off its end
               /\ rq_pc' = "returned"
               /\ rq_error' = None
               /\ attempt' = 0
          ELSE /\ rq_pc' = "rate_sleep"
               /\ rq_error' = None
               /\ attempt' = 1
  /\ UNCHANGED <<vpn_required, vpn_connected, rq_sends, rq_responses, rq_sleeps>>
  /\ UNCHANGED notReq

\* The call of KalshiClient._make_request up to its rate limiting: the session
\* check, then the request is signed and the try block is entered.
KalshiCall(session_open) ==
  /\ rq_pc = "ready"
  /\ rq_client' = "kalshi"
  /\ max_retries' = DefaultMaxRetries
  /\ IF ~session_open
       THEN /\ rq_pc' = "raised"
            /\ rq_error' = Some([type |-> "RuntimeError", what |-> "no_session",
                                 status |-> None, has_body |-> FALSE])
            /\ attempt' = 0
       ELSE /\ rq_pc' = "rate_sleep"
            /\ rq_error' = None
            /\ attempt' = 1
  /\ UNCHANGED <<vpn_required, vpn_connected, rq_sends, rq_responses, rq_sleeps>>
  /\ UNCHANGED notReq

\* The rate limiting before an attempt.  Polymarket: asyncio.sleep(0.1).
\* Kalshi: sleep min_interval - time_since_last when that is positive.
RateLimitSleep(c, time_since_last) ==
  IF IsPoly(c)
    THEN <<[kind |-> "rate", ms |-> PolyRateSleepMs]>>
    ELSE IF time_since_last < MinIntervalMs
           THEN <<[kind |-> "rate", ms |-> MinIntervalMs - time_since_last]>>
           ELSE <<>>

RateSleep(time_since_last) ==
  /\ rq_pc = "rate_sleep"
  /\ rq_sleeps' = rq_sleeps \o RateLimitSleep(rq_client, time_since_last)
  /\ rq_pc' = "send"
  /\ UNCHANGED <<rq_client, attempt, max_retries, vpn_required, vpn_connected,
                 rq_sends, rq_responses, rq_error>>
  /\ UNCHANGED notReq

\* session.get / session.post / session.request: the network attempt.
Send ==
  /\ rq_pc = "send"
  /\ rq_sends' = Append(rq_sends, [attempt |-> attempt, vpn |-> vpn_connected])
  /\ rq_pc' = "await"
  /\ UNCHANGED <<rq_client, attempt, max_retries, vpn_required, vpn_connected,
                 rq_responses, rq_sleeps, rq_error>>
  /\ UNCHANGED notReq

\* Whether a failed attempt is followed by another one.  Polymarket: the
\* `except Exception` of the loop catches every failure, and retries while
\* attempt < max_retries.  Kalshi: there is no loop.
RetriesAfter(c, a, m, r) == IsPoly(c) /\ a < m

\* The response to the attempt and everything the call does with it, up to its
\* return, its raise or the start of the next attempt.
Response(r) ==
  /\ rq_pc = "await"
  /\ rq_responses' = Append(rq_responses, r)
  /\ IF IsSuccess(r)
       THEN /\ rq_pc' = "returned"
            /\ UNCHANGED <<attempt, rq_sleeps, rq_error>>
       ELSE IF RetriesAfter(rq_client, attempt, max_retries, r)
       THEN /\ rq_sleeps' = rq_sleeps \o AttemptSleeps(r)
                              \o <<[kind |-> "backoff", ms |-> BackoffMs(attempt)]>>
            /\ attempt' = attempt + 1
            /\ rq_pc' = "rate_sleep"
            /\ UNCHANGED rq_error
       ELSE /\ rq_sleeps' = rq_sleeps \o AttemptSleeps(r)
            /\ rq_error' = Some(AttemptError(rq_client, r))
            /\ rq_pc' = "raised"
            /\ UNCHANGED attempt
  /\ UNCHANGED <<rq_client, max_retries, vpn_required, vpn_connected, rq_sends>>
  /\ UNCHANGED notReq

\* The network path comes up or goes down while the call is suspended (every
\* sleep and every network call is a suspension point).
VpnChange ==
  /\ rq_pc \in {"rate_sleep", "send", "await"}
  /\ vpn_connected' = ~vpn_connected
  /\ UNCHANGED <<rq_client, rq_pc, attempt, max_retries, vpn_required, rq_sends,
                 rq_responses, rq_sleeps, rq_error>>
  /\ UNCHANGED notReq

ReqNext ==
  \/ \E c \in {"poly_get", "poly_post"}, m \in 0..DefaultMaxRetries,
        so \in BOOLEAN : PolyCall(c, m, so)
  \/ \E so \in BOOLEAN : KalshiCall(so)
  \/ \E t \in {0, MinIntervalMs \div 2, MinIntervalMs} : RateSleep(t)
  \/ Send
  \/ \E r \in Responses : Response(r)
  \/ VpnChange


-----------------------------------------------------------------------------
\* Concurrent calls of the request layer on one client instance.  The clients
\* run on asyncio: the code between two awaits is one atomic step, and the
\* awaits are asyncio.sleep and the network call.
\*   BaseAPIClient._make_request   src/base_client.py:92-112
\*   KalshiClient._make_request    src/kalshi_client.py:165-185
\*   PolymarketClient._make_request src/polymarket_client.py:69-77

\* Granularity of the clock.
ClockStepMs == PolyRateSleepMs

\* Number of clock steps of a run.
MaxClockSteps == 6

\* time.time() when the first call is made: far from _last_request_time = 0.
ClockStart == 10 * ClockStepMs

\* The interval the rate limiter of a client is meant to keep between sends.
ClientMinInterval(c) == IF c = "kalshi" THEN MinIntervalMs ELSE PolyRateSleepMs

ConcInit ==
  /\ cc_client \in {"kalshi", "polymarket"}
  /\ now = ClockStart
  /\ last_request_time = 0
  /\ request_count = 0
  /\ task_pc = [t \in Tasks |-> "ready"]
  /\ wake = [t \in Tasks |-> 0]
  /\ cc_sends = <<>>

\* How long the rate limiter of the Kalshi / base client sleeps at time t:
\*   time_since_last = current_time - self._last_request_time
\*   if time_since_last < min_interval: sleep(min_interval - time_since_last)
KalshiSleepFor(t, last) ==
  IF t - last < MinIntervalMs THEN MinIntervalMs - (t - last) ELSE 0

\* A task calls _make_request: everything up to the first await.
ConcCall(t) ==
  /\ task_pc[t] = "ready"
  /\ IF cc_client = "kalshi"
       THEN /\ request_count' = request_count + 1
            /\ IF KalshiSleepFor(now, last_request_time) > 0
                 THEN /\ task_pc' = [task_pc EXCEPT ![t] = "sleeping"]
                      /\ wake' = [wake EXCEPT ![t] =
                                    now + KalshiSleepFor(now, last_request_time)]
                      /\ UNCHANGED <<last_request_time, cc_sends>>
                 ELSE \* no sleep: the timestamp is set and the request sent
                      /\ last_request_time' = now
                      /\ task_pc' = [task_pc EXCEPT ![t] = "inflight"]
                      /\ cc_sends' = Append(cc_sends, [task |-> t, at |-> now])
                      /\ UNCHANGED wake
       ELSE \* Polymarket: await asyncio.sleep(0.1), no shared timestamp
            /\ task_pc' = [task_pc EXCEPT ![t] = "sleeping"]
            /\ wake' = [wake EXCEPT ![t] = now + PolyRateSleepMs]
            /\ UNCHANGED <<request_count, last_request_time, cc_sends>>
  /\ UNCHANGED <<cc_client, now>>
  /\ UNCHANGED notConc

\* The sleep of a task is over: the timestamp is set (Kalshi / base client)
\* and the request is sent.
ConcWake(t) ==
  /\ task_pc[t] = "sleeping"
  /\ now >= wake[t]
  /\ last_request_time' = IF cc_client = "kalshi" THEN now ELSE last_request_time
  /\ task_pc' = [task_pc EXCEPT ![t] = "inflight"]
  /\ cc_sends' = Append(cc_sends, [task |-> t, at |-> now])
  /\ UNCHANGED <<cc_client, now, request_count, wake>>
  /\ UNCHANGED notConc

\* The response of the request of a task arrives.
ConcRespond(t) ==
  /\ task_pc[t] = "inflight"
  /\ task_pc' = [task_pc EXCEPT ![t] = "done"]
  /\ UNCHANGED <<cc_client, now, last_request_time, request_count, wake, cc_sends>>
  /\ UNCHANGED notConc

\* Time passes.
Tick ==
  /\ now < ClockStart + MaxClockSteps * ClockStepMs
  /\ now' = now + ClockStepMs
  /\ UNCHANGED <<cc_client, last_request_time, request_count, task_pc, wake,
                 cc_sends>>
  /\ UNCHANGED notConc

ConcNext ==
  \/ \E t \in Tasks : ConcCall(t)
  \/ \E t \in Tasks : ConcWake(t)
  \/ \E t \in Tasks : ConcRespond(t)
  \/ Tick

\* A caller that awaits each request before it makes the next one, as the
\* public operations of the clients do: a call starts only when no other call
\* of the instance is sleeping or in flight.
SeqCall(t) ==
  /\ \A u \in Tasks \ {t} : task_pc[u] \in {"ready", "done"}
  /\ ConcCall(t)

SeqNext ==
  \/ \E t \in Tasks : SeqCall(t)
  \/ \E t \in Tasks : ConcWake(t)
  \/ \E t \in Tasks : ConcRespond(t)
  \/ Tick

-----------------------------------------------------------------------------
\* The normalizers.
\*   KalshiClient._convert_to_standardized_market   src/kalshi_client.py:326-471
\*   PolymarketClient._convert_to_standardized_market_with_prices
\*                                                  src/polymarket_client.py:418-588
\*   PolymarketClient._convert_markets_with_batch_pricing
\*                                                  src/polymarket_client.py:173-248
\*   the conversion loop of KalshiClient.get_markets src/kalshi_client.py:232-239

\* A key that the raw record does not have, and a key whose value is null.
Missing == <<"<missing>">>
Null == <<"<null>">>

\* dict.get(key, default) on a text field
GetOr(field, default) == IF field = Missing THEN default ELSE field

\* Python truth of a text field read with .get(key, ''): '' and None are falsy
Falsy(text) == text \in {<<>>, Null}

\* The texts raw records are built from.
TickerTexts == {Missing, Null, <<>>, <<"K","X","-","1">>, <<"K","Y","-","2">>}
TitleTexts == {Missing, Null, <<>>, <<"W","i","l","l"," ","x","?">>,
               <<"I","s"," ","y","?">>}

\* Integer-cents values of the Kalshi price fields (None: absent or null).
CentsValues == {None, Some(0), Some(40), Some(100), Some(150)}
BidValues == {None, Some(0), Some(45)}
AskValues == {None, Some(45), Some(150)}

RulesTexts == {Missing, Null, <<"r","u","l","e">>}

RawKalshi ==
  [ticker : TickerTexts, title : TitleTexts, rules_primary : RulesTexts,
   last_price : CentsValues,
   yes_bid : BidValues, yes_ask : AskValues,
   no_bid : BidValues, no_ask : AskValues]

\* value / 100.0 on the fixed-point scale
CentsToPrice(c) == (c * Unit) \div 100

\* `x is not None and x > 0`
Positive(x) == ~IsNone(x) /\ Val(x) > 0

MarketOutcome(name, yes_price, no_price, bid, ask) ==
  [name |-> name, yes_price |-> yes_price, no_price |-> no_price,
   last_trade_price |-> None, bid |-> bid, ask |-> ask]

\* yes_price of the YES outcome (lines 386-392)
KalshiYesPrice(raw) ==
  IF Positive(raw.last_price) THEN Some(CentsToPrice(Val(raw.last_price)))
  ELSE IF Positive(raw.yes_ask) THEN Some(CentsToPrice(Val(raw.yes_ask)))
  ELSE IF Positive(raw.yes_bid) THEN Some(CentsToPrice(Val(raw.yes_bid)))
  ELSE None

\* no_price of the NO outcome (lines 404-410)
KalshiNoPrice(raw) ==
  IF Positive(raw.last_price) THEN Some(CentsToPrice(100 - Val(raw.last_price)))
  ELSE IF Positive(raw.no_ask) THEN Some(CentsToPrice(Val(raw.no_ask)))
  ELSE IF Positive(raw.no_bid) THEN Some(CentsToPrice(Val(raw.no_bid)))
  ELSE None

\* The outcomes list (lines 374-417)
KalshiOutcomes(raw) ==
  (IF ~IsNone(raw.yes_bid) \/ ~IsNone(raw.yes_ask)
     THEN <<MarketOutcome(<<"Y","e","s">>, KalshiYesPrice(raw), None, None, None)>>
     ELSE <<>>)
  \o
  (IF ~IsNone(raw.no_bid) \/ ~IsNone(raw.no_ask)
     THEN <<MarketOutcome(<<"N","o">>, None, KalshiNoPrice(raw), None, None)>>
     ELSE <<>>)

\* str.lower() on the letters the model uses
LowerChar(c) ==
  CASE c = "Y" -> "y" [] c = "N" -> "n" [] c = "W" -> "w" [] c = "I" -> "i"
    [] c = "D" -> "d" [] c = "A" -> "a" [] c = "H" -> "h" [] c = "K" -> "k"
    [] c = "X" -> "x" [] c = "E" -> "e" [] c = "S" -> "s" [] c = "C" -> "c"
    [] c = "L" -> "l" [] c = "O" -> "o" [] OTHER -> c

Lower(text) == [k \in 1..Len(text) |-> LowerChar(text[k])]

\* `needle in text` for Python strings
Contains(needle, text) ==
  \E k \in 0..(Len(text) - Len(needle)) :
     \A j \in 1..Len(needle) : text[k + j] = needle[j]

\* text.startswith(prefix)
StartsWith(text, prefix) ==
  Len(prefix) <= Len(text) /\ SubSeq(text, 1, Len(prefix)) = prefix

\* text.rstrip(c) for one character c
RECURSIVE RStrip(_, _)
RStrip(text, c) ==
  IF text # <<>> /\ text[Len(text)] = c
    THEN RStrip(SubSeq(text, 1, Len(text) - 1), c) ELSE text

RECURSIVE LStripChar(_, _)
LStripChar(text, c) ==
  IF text # <<>> /\ Head(text) = c THEN LStripChar(Tail(text), c) ELSE text

\* text.strip(): blanks are the only whitespace of the texts of the model
Strip(text) == LStripChar(RStrip(text, " "), " ")

\* text.replace(c, r) for one character c and a text r
RECURSIVE Replace(_, _, _)
Replace(text, c, r) ==
  IF text = <<>> THEN <<>>
  ELSE (IF Head(text) = c THEN r ELSE <<Head(text)>>) \o Replace(Tail(text), c, r)

\* text.split(c): the pieces between the occurrences of c, empty ones kept
RECURSIVE Split(_, _)
Split(text, c) ==
  IF \E k \in 1..Len(text) : text[k] = c
    THEN LET k == CHOOSE j \in 1..Len(text) :
                    text[j] = c /\ \A h \in 1..(j - 1) : text[h] # c
         IN <<SubSeq(text, 1, k - 1)>> \o Split(SubSeq(text, k + 1, Len(text)), c)
    ELSE <<text>>

\* c.join(parts)
RECURSIVE Join(_, _)
Join(parts, c) ==
  IF parts = <<>> THEN <<>>
  ELSE IF Len(parts) = 1 THEN parts[1]
  ELSE parts[1] \o <<c>> \o Join(Tail(parts), c)

\* ["Will ", "Does ", "Did ", "Is ", "Are ", "Has ", "Have "]
PrefixesToRemove ==
  << <<"W","i","l","l"," ">>, <<"D","o","e","s"," ">>, <<"D","i","d"," ">>,
     <<"I","s"," ">>, <<"A","r","e"," ">>, <<"H","a","s"," ">>,
     <<"H","a","v","e"," ">> >>

\* The loop over prefixes_to_remove: the first prefix the question starts
\* with is cut off.
RemovePrefix(question) ==
  IF \E k \in 1..Len(PrefixesToRemove) : StartsWith(question, PrefixesToRemove[k])
    THEN LET k == CHOOSE j \in 1..Len(PrefixesToRemove) :
                    /\ StartsWith(question, PrefixesToRemove[j])
                    /\ \A h \in 1..(j - 1) : ~StartsWith(question, PrefixesToRemove[h])
         IN SubSeq(question, Len(PrefixesToRemove[k]) + 1, Len(question))
    ELSE question

\* `if len(question) > 200`
MaxQuestionLength == 200

\* question[:200] + "..." for a question longer than 200 characters
Shorten(question) ==
  IF Len(question) > MaxQuestionLength
    THEN SubSeq(question, 1, MaxQuestionLength) \o <<".", ".", ".">>
    ELSE question

\* KalshiClient._extract_primary_question (src/kalshi_client.py:473-492)
KalshiPrimaryQuestion(title) ==
  Shorten(Strip(RStrip(RemovePrefix(title), "?")))

\* PolymarketClient._extract_primary_question
\* (src/polymarket_client.py:669-688)
PolyPrimaryQuestion(title) ==
  Shorten(RemovePrefix(Strip(Replace(title, "?", <<>>))))

\* The chain of replace calls of the title slug (kalshi_client.py:440): each
\* replaces one character, and no replacement brings in a character that a
\* later call replaces.
SlugChars(text) ==
  LET dropped == {"?", ":", ",", ".", "(", ")", "[", "]"}
      one(c) == IF c = " " \/ c = "/" THEN <<"-">>
                ELSE IF c \in dropped THEN <<>>
                ELSE IF c = "&" THEN <<"a", "n", "d">>
                ELSE <<c>>
      F[k \in 0..Len(text)] == IF k = 0 THEN <<>> ELSE F[k - 1] \o one(text[k])
  IN F[Len(text)]

\* Number of words the slug keeps.
SlugWords == 6

\* title_slug (kalshi_client.py:432-444)
KalshiTitleSlug(title) ==
  LET title_lower == Lower(title)
      bolivia == <<"b","o","l","i","v","i","a">>
      first_round == <<"f","i","r","s","t"," ","r","o","u","n","d">>
  IN IF Contains(bolivia, title_lower) /\ Contains(first_round, title_lower)
       THEN <<"bolivia-first-round-winner">>
     ELSE IF Contains(bolivia, title_lower)
       THEN <<"bolivia-election">>
     ELSE LET pieces == SelectSeq(Split(SlugChars(title_lower), "-"),
                                  LAMBDA w : w # <<>>)
              words == SubSeq(pieces, 1, Min2(SlugWords, Len(pieces)))
          IN Join(words, "-")

\* source_url of a Kalshi market (kalshi_client.py:427-446); the fixed
\* beginning of the URL is one element of the text.
KalshiSourceUrl(ticker, title) ==
  <<"https://kalshi.com/markets/">> \o Lower(Split(ticker, "-")[1])
    \o <<"/">> \o KalshiTitleSlug(title)

\* The check of line 334 without its title half: a faulty variant, against
\* which the properties of the normalizer are tested.
KalshiRequiredMissingNoTitle(raw) == Falsy(GetOr(raw.ticker, <<>>))

\* `if not market_id or not title` (line 334)
KalshiRequiredMissing(raw) ==
  Falsy(GetOr(raw.ticker, <<>>)) \/ Falsy(GetOr(raw.title, <<>>))

\* What a normalizer call did: it returned a market, returned None, or let an
\* exception escape.
Returned(m) == [raised |-> FALSE, market |-> m]
Raised == [raised |-> TRUE, market |-> None]

\* StandardizedMarket(...): pydantic rejects a field declared str that is None
ValidMarket(m) == m.id # Null /\ m.title # Null /\ m.description # Null

\* A normalizer that takes last_price out of the raw record it is given.
KalshiRawAfterPop(raw) == [raw EXCEPT !.last_price = None]

\* The raw record after _convert_to_standardized_market(raw): the function
\* reads kalshi_market with .get() and [] only and hands the same object on as
\* raw_data; no statement assigns to it or to one of its values.
KalshiRawAfter(raw) == raw

\* raw.get(name): a record without the field is a dict without the key.
Field(raw, name) == IF name \in DOMAIN raw THEN raw[name] ELSE Missing

\* A value of a raw record that is not a string (a number).
NotText == <<"<number>">>

\* status_mapping (kalshi_client.py:340-347)
StatusMapping ==
  [exchange : {<<"o","p","e","n">>, <<"i","n","i","t","i","a","l","i","z","e","d">>},
   canonical : {"active"}]
  \cup {[exchange |-> <<"c","l","o","s","e","d">>, canonical |-> "closed"],
        [exchange |-> <<"p","a","u","s","e","d">>, canonical |-> "paused"]}
  \cup [exchange : {<<"s","e","t","t","l","e","d">>, <<"f","i","n","a","l","i","z","e","d">>},
        canonical : {"settled"}]

\* kalshi_market.get('status', '').lower() (line 339): the default stands in
\* for a missing key only; None and a number have no lower().
KalshiStatusRaises(raw) == Field(raw, "status") \in {Null, NotText}

\* status_mapping.get(kalshi_status, MarketStatus.ACTIVE) (line 348)
KalshiStatus(raw) ==
  LET kalshi_status ==
        IF Field(raw, "status") \in {Null, NotText} THEN <<>>
        ELSE Lower(GetOr(Field(raw, "status"), <<>>))
  IN IF \E e \in StatusMapping : e.exchange = kalshi_status
       THEN (CHOOSE e \in StatusMapping : e.exchange = kalshi_status).canonical
       ELSE "active"

\* The date and time parts datetime.fromisoformat accepts; each is one element
\* of a text.
IsoLocalTimes == {"2025-01-01T00:00:00", "2025-06-30T12:00:00"}

\* datetime.fromisoformat(text): the datetime, aware when the text ends with
\* an offset, or None for the ValueError of a text that is not ISO-8601.
fromisoformat(text) ==
  IF /\ Len(text) \in {1, 2}
     /\ text[1] \in IsoLocalTimes
     /\ Len(text) = 2 => text[2] = "+00:00"
    THEN Some([local |-> text[1], utc |-> Len(text) = 2])
    ELSE None

\* `if raw.get(key):` followed by raw[key].replace('Z', '+00:00'): a truthy
\* value that is not a string has no replace(); the AttributeError is not the
\* ValueError of the inner except.
TimeRaises(value) == value = NotText

\* The date a timestamp field gives: None when the field is missing, null or
\* empty, and when fromisoformat rejects it.
ParseTime(value) ==
  IF value \in {Missing, Null, <<>>, NotText} THEN None
  ELSE fromisoformat(Replace(value, "Z", <<"+00:00">>))

\* The body of the try block of _convert_to_standardized_market.
KalshiConvertBody(raw) ==
  IF KalshiRequiredMissing(raw)
    THEN Returned(None)
  ELSE IF KalshiStatusRaises(raw)
    THEN Raised
  ELSE IF \E key \in {"open_time", "close_time", "expiration_time"} :
            TimeRaises(Field(raw, key))
    THEN Raised
    ELSE LET m == [id |-> raw.ticker,
                   platform |-> "kalshi",
                   title |-> raw.title,
                   description |-> GetOr(raw.rules_primary, raw.title),
                   outcomes |-> KalshiOutcomes(raw),
                   status |-> KalshiStatus(raw),
                   created_at |-> ParseTime(Field(raw, "open_time")),
                   close_date |-> ParseTime(Field(raw, "close_time")),
                   resolution_date |-> ParseTime(Field(raw, "expiration_time")),
                   source_url |-> KalshiSourceUrl(raw.ticker, raw.title),
                   primary_question |-> KalshiPrimaryQuestion(raw.title)]
         IN IF ValidMarket(m) THEN Returned(Some(m)) ELSE Raised

\* _convert_to_standardized_market: `except Exception: return None`
KalshiConvert(raw) ==
  IF KalshiConvertBody(raw).raised THEN Returned(None) ELSE KalshiConvertBody(raw)

\* ---- Polymarket

\* A price of a prices response that float() rejects (ValueError).
Invalid == <<0, 0>>
IsInvalid(x) == Len(x) = 2

\* Values of the BUY and SELL entries of a prices response (already decimal).
BuyValues == {None, Invalid, Some(0), Some(5500), Some(Unit), Some(15000)}
SellValues == {None, Invalid, Some(20000)}

\* Token ids of the raw records (0: a token without a token_id).
TokenLists ==
  { <<>>,
    <<[token_id |-> 1, outcome |-> <<"Y","e","s">>]>>,
    <<[token_id |-> 1, outcome |-> <<"Y","e","s">>],
      [token_id |-> 2, outcome |-> <<"N","o">>]>>,
    <<[token_id |-> 0, outcome |-> <<"Y","e","s">>],
      [token_id |-> 2, outcome |-> <<"N","o">>]>> }

\* Values of market_slug.
SlugTexts == {Missing, <<"e","v">>}

RawPoly ==
  [condition_id : TickerTexts, question : TitleTexts, tokens : TokenLists,
   market_slug : SlugTexts]

\* prices_data: for each token id either no entry or an entry {BUY, SELL}.
NoEntry == [present |-> FALSE, BUY |-> None, SELL |-> None]
PriceEntries ==
  {NoEntry} \cup [present : {TRUE}, BUY : BuyValues, SELL : SellValues]
PriceData == [{1, 2} -> PriceEntries]

\* The pricing of one outcome (lines 482-505).  float(buy_price) may raise
\* ValueError, which the inner except absorbs; so may float(sell_price),
\* after yes_price / no_price and bid have been assigned.
PolyOutcome(token, prices) ==
  LET name == token.outcome
      entry == prices[token.token_id]
      plain == MarketOutcome(name, None, None, None, None)
  IN IF ~entry.present \/ IsNone(entry.BUY) \/ IsInvalid(entry.BUY)
       THEN plain
       ELSE LET priced ==
                  IF Contains(<<"y","e","s">>, Lower(name))
                    THEN [plain EXCEPT !.yes_price = entry.BUY]
                    ELSE [plain EXCEPT !.no_price = entry.BUY]
            IN IF IsNone(entry.SELL) THEN priced
               ELSE IF IsInvalid(entry.SELL)
                      THEN [priced EXCEPT !.bid = entry.BUY]
               ELSE [priced EXCEPT !.bid = entry.BUY, !.ask = entry.SELL]

\* The outcomes list: one outcome per token that has a token_id.
PolyOutcomes(tokens, prices) ==
  LET withId == SelectSeq(tokens, LAMBDA t : t.token_id # 0)
  IN [k \in 1..Len(withId) |-> PolyOutcome(withId[k], prices)]

\* source_url of a Polymarket market (polymarket_client.py:532-547): the
\* event page of the slug, or of the condition id when the slug is empty,
\* with the id of the first token as the tid parameter when it has one.  The
\* fixed pieces of the URL and the token id are one element of the text each.
PolySourceUrl(raw) ==
  LET market_slug == GetOr(raw.market_slug, <<>>)
      first_token_id == IF raw.tokens # <<>> THEN raw.tokens[1].token_id ELSE 0
      base_url == <<"https://polymarket.com/event/">>
                    \o (IF ~Falsy(market_slug) THEN market_slug
                        ELSE raw.condition_id)
  IN IF first_token_id # 0
       THEN base_url \o <<"?tid=", ToString(first_token_id)>>
       ELSE base_url

\* `if not condition_id or not question` (line 430)
PolyRequiredMissing(raw) ==
  Falsy(GetOr(raw.condition_id, <<>>)) \/ Falsy(GetOr(raw.question, <<>>))

\* The raw record after _convert_to_standardized_market_with_prices(raw,
\* prices): polymarket_data and its tokens are only read, and the parsed
\* values go into a new dict enhanced_raw_data (lines 549-559).
PolyRawAfter(raw) == raw

\* polymarket_data.get('active', True) / .get('closed', False): a flag of a
\* record is None when the record lacks the key.
PolyFlag(raw, name, default) ==
  IF name \in DOMAIN raw /\ ~IsNone(raw[name]) THEN Val(raw[name]) ELSE default

\* `if closed or not active` (polymarket_client.py:434-441)
PolyStatus(raw) ==
  IF PolyFlag(raw, "closed", FALSE) \/ ~PolyFlag(raw, "active", TRUE)
    THEN "closed" ELSE "active"

\* The body of the try block of _convert_to_standardized_market_with_prices.
PolyConvertBody(raw, prices) ==
  IF PolyRequiredMissing(raw)
    THEN Returned(None)
  ELSE IF \E key \in {"end_date_iso", "game_start_time"} :
            TimeRaises(Field(raw, key))
    THEN Raised
    ELSE LET m == [id |-> raw.condition_id,
                   platform |-> "polymarket",
                   title |-> raw.question,
                   description |-> raw.question,
                   outcomes |-> PolyOutcomes(raw.tokens, prices),
                   status |-> PolyStatus(raw),
                   created_at |-> None,
                   close_date |-> ParseTime(Field(raw, "end_date_iso")),
                   resolution_date |-> None,
                   source_url |-> PolySourceUrl(raw),
                   primary_question |-> PolyPrimaryQuestion(raw.question)]
         IN IF ValidMarket(m) THEN Returned(Some(m)) ELSE Raised

\* _convert_to_standardized_market_with_prices: `except Exception: return None`
PolyConvert(raw, prices) ==
  IF PolyConvertBody(raw, prices).raised
    THEN Returned(None) ELSE PolyConvertBody(raw, prices)

\* ---- Records with a status and timestamps

\* Values of the status field of a Kalshi record.
StatusTexts ==
  {Missing, Null, NotText, <<>>, <<"o","p","e","n">>, <<"C","L","O","S","E","D">>,
   <<"s","e","t","t","l","e","d">>, <<"p","a","u","s","e","d">>,
   <<"i","n","i","t","i","a","l","i","z","e","d">>,
   <<"f","i","n","a","l","i","z","e","d">>, <<"h","a","l","t","e","d">>}

\* Values of a timestamp field: missing, null, empty, ISO-8601 with and
\* without Z, a text that is no timestamp, and a number.
TimeTexts ==
  {Missing, Null, <<>>, <<"2025-01-01T00:00:00", "Z">>, <<"2025-06-30T12:00:00">>,
   <<"s","o","o","n">>, NotText}

\* Titles: a question with a prefix and a trailing '?', and one with a '?'
\* inside.
DatedTitles == {<<"W","i","l","l"," ","x","?">>, <<"I","s"," ","x","?"," ","y">>}

DatedRawKalshi ==
  [ticker : {<<"K","X","-","1">>}, title : DatedTitles,
   rules_primary : {Missing}, last_price : {Some(40)}, yes_bid : {Some(45)},
   yes_ask : {None}, no_bid : {None}, no_ask : {Some(45)},
   status : StatusTexts, open_time : {Missing, <<"2025-01-01T00:00:00", "Z">>},
   close_time : TimeTexts, expiration_time : {Missing, <<"s","o","o","n">>}]

DatedRawPoly ==
  [condition_id : {<<"K","X","-","1">>}, question : DatedTitles,
   tokens : {<<[token_id |-> 1, outcome |-> <<"Y","e","s">>]>>},
   market_slug : {Missing},
   active : {None, Some(TRUE), Some(FALSE)}, closed : {None, Some(TRUE), Some(FALSE)},
   end_date_iso : TimeTexts, game_start_time : {Missing, NotText}]

\* ---- Batch conversion

\* Largest number of raw records in a batch.
MaxBatch == 3

\* The raw records batches are built from: every combination of a present or
\* missing id and a present, empty or null title, with one fixed pricing and
\* otherwise well-formed.
BatchIds == {Missing, <<"K","X","-","1">>, <<"K","Y","-","2">>}
BatchTitles == {Null, <<>>, <<"W","i","l","l"," ","x","?">>}

BatchRawKalshi ==
  [ticker : BatchIds, title : BatchTitles, rules_primary : {Missing},
   last_price : {Some(40)}, yes_bid : {Some(45)}, yes_ask : {None},
   no_bid : {None}, no_ask : {Some(45)}]

BatchRawPoly ==
  [condition_id : BatchIds, question : BatchTitles, market_slug : {Missing},
   tokens : {toks \in TokenLists : Len(toks) = 2 /\ toks[1].token_id = 1}]

\* What get_market_prices can have returned for the tokens of a batch
\* (`batch_prices = await self.get_market_prices(all_token_ids) or {}`).
BatchPriceData ==
  { [t \in {1, 2} |-> NoEntry],
    [t \in {1, 2} |-> [present |-> TRUE, BUY |-> Some(5500), SELL |-> Some(20000)]],
    [t \in {1, 2} |-> IF t = 1 THEN NoEntry
                      ELSE [present |-> TRUE, BUY |-> Some(15000), SELL |-> None]] }

SeqsUpTo(S, n) == UNION {[1..k -> S] : k \in 0..n}

\* Step 1 of _convert_markets_with_batch_pricing (lines 184-210): the token
\* ids recorded for a condition id; a later record of the same condition id
\* overwrites an earlier one, and a record without condition id or without
\* token ids records nothing.
TokenIdsOf(raw) ==
  {raw.tokens[k].token_id : k \in 1..Len(raw.tokens)} \ {0}

RECURSIVE MarketTokenMapping(_, _)
MarketTokenMapping(batch, cid) ==
  IF batch = <<>> THEN {}
  ELSE LET last == batch[Len(batch)]
       IN IF ~Falsy(GetOr(last.condition_id, <<>>))
             /\ last.condition_id = cid /\ TokenIdsOf(last) # {}
            THEN TokenIdsOf(last)
            ELSE MarketTokenMapping(SubSeq(batch, 1, Len(batch) - 1), cid)

\* Step 3, lines 227-236: the prices handed to the normalizer for one record.
MarketPrices(batch, raw, batch_prices) ==
  [t \in {1, 2} |->
     IF t \in MarketTokenMapping(batch, GetOr(raw.condition_id, <<>>))
       THEN batch_prices[t] ELSE NoEntry]

\* One record of a batch through its normalizer.
BatchConvert(platform, batch, raw, batch_prices) ==
  IF platform = "kalshi"
    THEN KalshiConvert(raw)
    ELSE PolyConvert(raw, MarketPrices(batch, raw, batch_prices))

\* What the conversion loop does with the result for one record: a market is
\* appended, None and an exception are skipped (`continue`).
BatchAppend(out, res) ==
  IF ~res.raised /\ ~IsNone(res.market) THEN Append(out, Val(res.market)) ELSE out

\* ---- Keyword search: the body of the page loop

\* Largest number of raw records of a fetched page.
MaxPageRecords == 2

\* market_raw.get('active', False) / market_raw.get('closed', True): a flag is
\* None when the record lacks the key.
FlagOr(flag, default) == IF IsNone(flag) THEN default ELSE Val(flag)

Keywords == {<<"x">>, <<"W","I">>, <<"u","l">>, <<"z">>}

\* The raw records of a fetched page.
KeywordRawKalshi ==
  [ticker : {<<"K","X","-","1">>},
   title : {Null, <<"W","i","l","l"," ","x","?">>, <<"I","s"," ","y","?">>},
   rules_primary : RulesTexts,
   last_price : {Some(40)}, yes_bid : {Some(45)}, yes_ask : {None},
   no_bid : {None}, no_ask : {Some(45)}]

KeywordFlags ==
  {<<Some(TRUE), Some(FALSE)>>, <<Some(TRUE), Some(TRUE)>>,
   <<Some(FALSE), Some(FALSE)>>, <<None, Some(FALSE)>>, <<Some(TRUE), None>>}

KeywordRawPoly ==
  {[condition_id |-> <<"K","X","-","1">>, question |-> q, market_slug |-> Missing,
    tokens |-> <<[token_id |-> 1, outcome |-> <<"Y","e","s">>],
                 [token_id |-> 2, outcome |-> <<"N","o">>]>>,
    active |-> f[1], closed |-> f[2]] :
     q \in {Null, <<"W","i","l","l"," ","x","?">>}, f \in KeywordFlags}

\* None.lower() raises AttributeError (kalshi_client.py:281-282,
\* polymarket_client.py:355); the except of the loop skips the record.
KalshiFilterRaises(raw) == raw.title = Null \/ raw.rules_primary = Null
PolyFilterRaises(raw) == raw.question = Null

\* kalshi_client.py:281-284
KalshiKeywordMatch(keyword, raw) ==
  \/ Contains(Lower(keyword), Lower(GetOr(raw.title, <<>>)))
  \/ Contains(Lower(keyword), Lower(GetOr(raw.rules_primary, <<>>)))

\* polymarket_client.py:351-357: the active test comes first, and a record
\* that fails it is dropped before its question is read.
PolyActive(raw) == FlagOr(raw.active, FALSE) /\ ~FlagOr(raw.closed, TRUE)
PolyKeywordMatch(keyword, raw) ==
  Contains(Lower(keyword), Lower(GetOr(raw.question, <<>>)))

\* kalshi_client.py:277-293: the records of a page, from record k on, that
\* are appended to all_markets.
RECURSIVE KalshiKeywordPageFrom(_, _, _)
KalshiKeywordPageFrom(keyword, page, k) ==
  IF k > Len(page) THEN <<>>
  ELSE LET raw == page[k]
           rest == KalshiKeywordPageFrom(keyword, page, k + 1)
       IN  IF KalshiFilterRaises(raw) THEN rest
           ELSE IF ~KalshiKeywordMatch(keyword, raw) THEN rest
           ELSE BatchAppend(<<>>, KalshiConvert(raw)) \o rest

\* polymarket_client.py:345-364: markets_to_process of a page, from record k on.
RECURSIVE MarketsToProcess(_, _, _)
MarketsToProcess(keyword, page, k) ==
  IF k > Len(page) THEN <<>>
  ELSE LET raw == page[k]
           rest == MarketsToProcess(keyword, page, k + 1)
       IN  IF ~PolyActive(raw) THEN rest
           ELSE IF PolyFilterRaises(raw) THEN rest
           ELSE IF ~PolyKeywordMatch(keyword, raw) THEN rest
           ELSE <<raw>> \o rest

\* _convert_markets_with_batch_pricing(markets_to_process), from record k on.
RECURSIVE ConvertFrom(_, _, _)
ConvertFrom(batch, batch_prices, k) ==
  IF k > Len(batch) THEN <<>>
  ELSE BatchAppend(<<>>, BatchConvert("polymarket", batch, batch[k], batch_prices))
         \o ConvertFrom(batch, batch_prices, k + 1)

\* polymarket_client.py:345-369
PolyKeywordPage(keyword, page, batch_prices) ==
  ConvertFrom(MarketsToProcess(keyword, page, 1), batch_prices, 1)

NormInit ==
  /\ nm_pc = "ready"
  /\ nm_platform = "none"
  /\ nm_raw = <<>>
  /\ nm_prices = <<>>
  /\ nm_result = <<>>
  /\ nm_batch = <<>>
  /\ nm_idx = 0
  /\ nm_out = <<>>
  /\ nm_keyword = <<>>
  /\ nm_dict = <<>>
  /\ nm_second = <<>>

\* KalshiClient._convert_to_standardized_market(raw)
NormalizeKalshi(raw) ==
  /\ nm_pc = "ready"
  /\ nm_pc' = "converted"
  /\ nm_platform' = "kalshi"
  /\ nm_raw' = raw
  /\ nm_result' = KalshiConvert(raw)
  /\ nm_dict' = KalshiRawAfter(raw)
  /\ UNCHANGED <<nm_prices, nm_batch, nm_idx, nm_out>>
  /\ UNCHANGED <<nm_keyword, nm_second>>
  /\ UNCHANGED notNorm

\* PolymarketClient._convert_to_standardized_market_with_prices(raw, prices)
NormalizePoly(raw, prices) ==
  /\ nm_pc = "ready"
  /\ nm_pc' = "converted"
  /\ nm_platform' = "polymarket"
  /\ nm_raw' = raw
  /\ nm_prices' = prices
  /\ nm_result' = PolyConvert(raw, prices)
  /\ nm_dict' = PolyRawAfter(raw)
  /\ UNCHANGED <<nm_batch, nm_idx, nm_out>>
  /\ UNCHANGED <<nm_keyword, nm_second>>
  /\ UNCHANGED notNorm

\* The normalizer of the platform is called once more on the same raw record
\* object, with the same price data.
NormalizeAgain ==
  /\ nm_pc = "converted"
  /\ nm_pc' = "converted_twice"
  /\ nm_second' = IF nm_platform = "kalshi"
                    THEN KalshiConvert(nm_dict)
                    ELSE PolyConvert(nm_dict, nm_prices)
  /\ nm_dict' = IF nm_platform = "kalshi"
                  THEN KalshiRawAfter(nm_dict) ELSE PolyRawAfter(nm_dict)
  /\ UNCHANGED <<nm_platform, nm_raw, nm_prices, nm_result, nm_batch, nm_idx,
                 nm_out, nm_keyword>>
  /\ UNCHANGED notNorm

\* A batch conversion starts: the loop of KalshiClient.get_markets over
\* market_data, or _convert_markets_with_batch_pricing(markets_data) up to
\* its step 3 (`if not markets_data: return []`, steps 1 and 2).
BatchStart(platform, batch, batch_prices) ==
  /\ nm_pc = "ready"
  /\ nm_platform' = platform
  /\ nm_batch' = batch
  /\ nm_prices' = batch_prices
  /\ nm_out' = <<>>
  /\ IF platform = "polymarket" /\ batch = <<>>
       THEN nm_pc' = "batch_done" /\ nm_idx' = 0
       ELSE nm_pc' = "batch" /\ nm_idx' = 1
  /\ UNCHANGED <<nm_raw, nm_result>>
  /\ UNCHANGED <<nm_keyword, nm_dict, nm_second>>
  /\ UNCHANGED notNorm

\* One iteration of the conversion loop.
BatchStep ==
  /\ nm_pc = "batch"
  /\ nm_idx <= Len(nm_batch)
  /\ LET res == BatchConvert(nm_platform, nm_batch, nm_batch[nm_idx], nm_prices)
     IN /\ nm_result' = res
        /\ nm_out' = BatchAppend(nm_out, res)
  /\ nm_raw' = nm_batch[nm_idx]
  /\ nm_idx' = nm_idx + 1
  /\ UNCHANGED <<nm_pc, nm_platform, nm_prices, nm_batch>>
  /\ UNCHANGED <<nm_keyword, nm_dict, nm_second>>
  /\ UNCHANGED notNorm

\* The loop is over and the list is returned.
BatchReturn ==
  /\ nm_pc = "batch"
  /\ nm_idx > Len(nm_batch)
  /\ nm_pc' = "batch_done"
  /\ UNCHANGED <<nm_platform, nm_raw, nm_prices, nm_result, nm_batch, nm_idx, nm_out>>
  /\ UNCHANGED <<nm_keyword, nm_dict, nm_second>>
  /\ UNCHANGED notNorm

\* get_markets_by_keyword(keyword) has fetched a page and runs the body of its
\* loop on it: the markets of the page that it adds to all_markets.
KeywordPage(platform, keyword, page, batch_prices) ==
  /\ nm_pc = "ready"
  /\ nm_pc' = "keyword_done"
  /\ nm_platform' = platform
  /\ nm_keyword' = keyword
  /\ nm_batch' = page
  /\ nm_prices' = batch_prices
  /\ nm_out' = IF platform = "kalshi"
                 THEN KalshiKeywordPageFrom(keyword, page, 1)
                 ELSE PolyKeywordPage(keyword, page, batch_prices)
  /\ UNCHANGED <<nm_raw, nm_result, nm_idx, nm_dict, nm_second>>
  /\ UNCHANGED notNorm

\* The inputs are drawn only where a call can start.
NormNext ==
  \/ /\ nm_pc = "ready"
     /\ \E raw \in RawKalshi : NormalizeKalshi(raw)
  \/ /\ nm_pc = "ready"
     /\ \E raw \in RawPoly, prices \in PriceData : NormalizePoly(raw, prices)
  \/ /\ nm_pc = "ready"
     /\ \E raw \in DatedRawKalshi : NormalizeKalshi(raw)
  \/ /\ nm_pc = "ready"
     /\ \E raw \in DatedRawPoly : NormalizePoly(raw, [t \in {1, 2} |-> NoEntry])
  \/ /\ nm_pc = "ready"
     /\ \E batch \in SeqsUpTo(BatchRawKalshi, MaxBatch) :
          BatchStart("kalshi", batch, [t \in {1, 2} |-> NoEntry])
  \/ /\ nm_pc = "ready"
     /\ \E batch \in SeqsUpTo(BatchRawPoly, MaxBatch), bp \in BatchPriceData :
          BatchStart("polymarket", batch, bp)
  \/ /\ nm_pc = "ready"
     /\ \E keyword \in Keywords,
           page \in SeqsUpTo(KeywordRawKalshi, MaxPageRecords) \ {<<>>} :
          KeywordPage("kalshi", keyword, page, [t \in {1, 2} |-> NoEntry])
  \/ /\ nm_pc = "ready"
     /\ \E keyword \in Keywords,
           page \in SeqsUpTo(KeywordRawPoly, MaxPageRecords) \ {<<>>},
           bp \in BatchPriceData :
          KeywordPage("polymarket", keyword, page, bp)
  \/ BatchStep
  \/ BatchReturn
  \/ NormalizeAgain

-----------------------------------------------------------------------------
\* The public operations of the two clients.
\*   KalshiClient      get_markets             src/kalshi_client.py:215-246
\*                     get_markets_by_keyword  src/kalshi_client.py:248-306
\*                     get_market_details      src/kalshi_client.py:308-324
\*                     health_check            src/kalshi_client.py:503-510
\*   PolymarketClient  get_markets             src/polymarket_client.py:252-313
\*                     get_markets_by_keyword  src/polymarket_client.py:315-382
\*                     get_market_details      src/polymarket_client.py:384-416
\*                     get_market_prices       src/polymarket_client.py:590-667
\*                     health_check            src/polymarket_client.py:689-698
\* A request of an operation is one call of _make_request or
\* _make_post_request: it returns the response or it raises.  A page of the
\* markets listing is described by the number of its records and the cursor
\* it carries; every record of a page is one that passes the filter of the
\* operation and that the normalizer accepts.

\* Largest number of pages the server holds.
MaxPages == 3

\* `'limit': 200` and `len(market_data) < 200`
KalshiPageLimit == 200

\* The cursor of Polymarket that means the end
EndSentinel == "LTE="

\* The opaque cursor the server hands out for the page at each position.
CursorNames == <<"c1", "c2", "c3", "c4", "c5">>

\* Record counts of a page: none, a short page, a full page.
PageSizes == {0, 150, KalshiPageLimit}

\* Values of the parameter limit (0: None).
Limits == {0, KalshiPageLimit}

\* A page carries no cursor, the end sentinel, or the cursor of the next page.
Pages(j) == [size : PageSizes, cursor : {"", EndSentinel, CursorNames[j + 1]}]

Sources ==
  UNION {{src \in [1..k -> UNION {Pages(j) : j \in 1..k}] :
            \A j \in 1..k : src[j] \in Pages(j)} : k \in 1..MaxPages}

EmptyPage == [size |-> 0, cursor |-> ""]

\* The response of the markets listing to a request carrying a cursor: the
\* first page without one, the page the cursor was handed out for, and an
\* empty page for a cursor that names no page.
ServerPage(source, cursor) ==
  IF cursor = "" THEN source[1]
  ELSE IF \E j \in 2..Len(source) : CursorNames[j] = cursor
    THEN source[CHOOSE j \in 2..Len(source) : CursorNames[j] = cursor]
    ELSE EmptyPage

\* The operations that walk the pages of the listing.
Paged(client, name) ==
  \/ name = "get_markets_by_keyword"
  \/ client = "polymarket" /\ name = "get_markets"

OpNames(client) ==
  {"get_markets", "get_markets_by_keyword", "get_market_details", "health_check"}
  \cup (IF client = "polymarket" THEN {"get_market_prices"} ELSE {})

SourcesFor(client, name) ==
  IF Paged(client, name) THEN Sources
  ELSE IF name = "get_markets" THEN {src \in Sources : Len(src) = 1}
  ELSE {<<>>}

Result(kind, n) == [kind |-> kind, n |-> n]

\* The history of page requests and the length of all_markets are followed up
\* to these values; further requests and records leave them as they are.
MaxFetches == MaxPages + 1
MaxAccumulated == MaxFetches * KalshiPageLimit

\* One page in the loop of KalshiClient.get_markets_by_keyword (lines
\* 271-299): the new length of all_markets and whether the loop ends.
KalshiKeywordPage(all, page) ==
  IF page.size = 0
    THEN [all |-> all, stop |-> TRUE]
    ELSE [all |-> all + page.size,
          stop |-> page.cursor = "" \/ page.size < KalshiPageLimit]

\* One page in the loops of PolymarketClient.get_markets (lines 276-306) and
\* get_markets_by_keyword (lines 339-375, limit = 0).
PolyPage(all, page, limit) ==
  IF page.size = 0
    THEN [all |-> all, stop |-> TRUE]
  ELSE IF page.cursor = EndSentinel \/ page.cursor = ""
    THEN [all |-> all + page.size, stop |-> TRUE]
  ELSE IF limit # 0 /\ all + page.size >= limit
    THEN [all |-> limit, stop |-> TRUE]
  ELSE [all |-> all + page.size, stop |-> FALSE]

\* An `except` clause that hands out what the loop has accumulated so far.
FailureResultPartial(client, name) ==
  IF name \in {"get_markets", "get_markets_by_keyword"}
    THEN Result("list", op_all_markets)
  ELSE IF name = "health_check" THEN Result("false", 0)
  ELSE Result("none", 0)

\* What each operation does with an exception of its request: the `except`
\* clause of the operation.
FailureResult(client, name) ==
  IF name \in {"get_markets", "get_markets_by_keyword"}
    THEN IF client = "kalshi" THEN Result("raised", 0) ELSE Result("list", 0)
  ELSE IF name = "health_check" THEN Result("false", 0)
  ELSE Result("none", 0)

OpsInit ==
  /\ op_client = "none"
  /\ op_name = "none"
  /\ op_pc = "ready"
  /\ op_limit = 0
  /\ op_source = <<>>
  /\ op_cursor = ""
  /\ op_fetches = <<>>
  /\ op_all_markets = 0
  /\ page_count = 0
  /\ op_failed = "no"
  /\ op_result = <<>>

\* The operation is called and reaches its first request.
OpCall(client, name, limit, source) ==
  /\ op_pc = "ready"
  /\ limit # 0 => name = "get_markets"
  /\ op_client' = client
  /\ op_name' = name
  /\ op_limit' = limit
  /\ op_source' = source
  /\ op_pc' = "fetching"
  /\ UNCHANGED <<op_cursor, op_fetches, op_all_markets, op_failed, op_result>>
  /\ UNCHANGED page_count
  /\ UNCHANGED notOps

\* KalshiClient.get_markets: the one request returns, every record is
\* converted and the list is returned.
KalshiGetMarketsResponse ==
  /\ op_pc = "fetching"
  /\ op_client = "kalshi" /\ op_name = "get_markets"
  /\ op_fetches' = Append(op_fetches, "")
  /\ op_all_markets' = ServerPage(op_source, "").size
  /\ op_result' = Result("list", op_all_markets')
  /\ op_pc' = "done"
  /\ UNCHANGED <<op_client, op_name, op_limit, op_source, op_cursor, op_failed>>
  /\ UNCHANGED page_count
  /\ UNCHANGED notOps

\* A page request of a paged operation returns: one iteration of `while True`.
PageResponse ==
  /\ op_pc = "fetching"
  /\ Paged(op_client, op_name)
  /\ LET page == ServerPage(op_source, op_cursor)
         step == IF op_client = "kalshi"
                   THEN KalshiKeywordPage(op_all_markets, page)
                   ELSE PolyPage(op_all_markets, page, op_limit)
     IN /\ op_fetches' = IF Len(op_fetches) < MaxFetches
                            THEN Append(op_fetches, op_cursor) ELSE op_fetches
        /\ op_cursor' = page.cursor
        /\ page_count' = (page_count + 1) % MaxFetches
        /\ op_all_markets' = Min2(step.all, MaxAccumulated)
        /\ IF step.stop
             THEN op_pc' = "done" /\ op_result' = Result("list", op_all_markets')
             ELSE op_pc' = "fetching" /\ UNCHANGED op_result
  /\ UNCHANGED <<op_client, op_name, op_limit, op_source, op_failed>>
  /\ UNCHANGED notOps

\* get_market_details: the request returns.  found: the response holds a
\* market; has_tokens: a Polymarket market with token ids, whose prices are
\* fetched before the conversion.
DetailsResponse(found, has_tokens) ==
  /\ op_pc = "fetching"
  /\ op_name = "get_market_details"
  /\ IF ~found
       THEN op_pc' = "done" /\ op_result' = Result("none", 0)
       ELSE IF op_client = "polymarket" /\ has_tokens
         THEN op_pc' = "pricing" /\ UNCHANGED op_result
         ELSE op_pc' = "done" /\ op_result' = Result("market", 1)
  /\ UNCHANGED <<op_client, op_name, op_limit, op_source, op_cursor,
                 op_fetches, op_all_markets, op_failed>>
  /\ UNCHANGED page_count
  /\ UNCHANGED notOps

\* PolymarketClient.get_market_details: get_market_prices has returned, with
\* prices or, its request having failed, with None; the market is converted.
DetailsPriced(prices_failed) ==
  /\ op_pc = "pricing"
  /\ op_failed' = IF prices_failed THEN "prices" ELSE op_failed
  /\ op_pc' = "done"
  /\ op_result' = Result("market", 1)
  /\ UNCHANGED <<op_client, op_name, op_limit, op_source, op_cursor,
                 op_fetches, op_all_markets>>
  /\ UNCHANGED page_count
  /\ UNCHANGED notOps

\* PolymarketClient.get_market_prices, called with token ids: the request
\* returns; `return all_prices if all_prices else None`.
PricesResponse(priced) ==
  /\ op_pc = "fetching"
  /\ op_name = "get_market_prices"
  /\ op_pc' = "done"
  /\ op_result' = IF priced THEN Result("dict", 1) ELSE Result("none", 0)
  /\ UNCHANGED <<op_client, op_name, op_limit, op_source, op_cursor,
                 op_fetches, op_all_markets, op_failed>>
  /\ UNCHANGED page_count
  /\ UNCHANGED notOps

\* health_check: the request returns.  flag: exchange_active of the Kalshi
\* response, `response is not None` of the Polymarket one.
HealthResponse(flag) ==
  /\ op_pc = "fetching"
  /\ op_name = "health_check"
  /\ op_pc' = "done"
  /\ op_result' = IF flag THEN Result("true", 0) ELSE Result("false", 0)
  /\ UNCHANGED <<op_client, op_name, op_limit, op_source, op_cursor,
                 op_fetches, op_all_markets, op_failed>>
  /\ UNCHANGED page_count
  /\ UNCHANGED notOps

\* The request of the operation raises and the `except` clause of the
\* operation runs.
RequestFails ==
  /\ op_pc = "fetching"
  /\ op_failed' = "request"
  /\ op_fetches' = IF op_name \in {"get_markets", "get_markets_by_keyword"}
                     THEN Append(op_fetches, op_cursor) ELSE op_fetches
  /\ op_pc' = "done"
  /\ op_result' = FailureResult(op_client, op_name)
  /\ UNCHANGED <<op_client, op_name, op_limit, op_source, op_cursor,
                 op_all_markets>>
  /\ UNCHANGED page_count
  /\ UNCHANGED notOps

OpsNext ==
  \/ /\ op_pc = "ready"
     /\ \E client \in {"kalshi", "polymarket"}, limit \in Limits :
          \E name \in OpNames(client) :
            \E source \in SourcesFor(client, name) :
              OpCall(client, name, limit, source)
  \/ KalshiGetMarketsResponse
  \/ PageResponse
  \/ \E found \in BOOLEAN, has_tokens \in BOOLEAN : DetailsResponse(found, has_tokens)
  \/ \E prices_failed \in BOOLEAN : DetailsPriced(prices_failed)
  \/ \E priced \in BOOLEAN : PricesResponse(priced)
  \/ \E flag \in BOOLEAN : HealthResponse(flag)
  \/ RequestFails

\* ---- The pagination loops against an arbitrary server

\* Largest number of pages of a server whose cursors may point anywhere.
MaxLoopPages == 2

\* A page of such a server carries no cursor, the end sentinel, or the
\* cursor of any page, its own included.
LoopPages ==
  [size : PageSizes,
   cursor : {"", EndSentinel} \cup {CursorNames[j] : j \in 2..MaxLoopPages}]

LoopSources == UNION {[1..k -> LoopPages] : k \in 1..MaxLoopPages}

\* The three `while True` loops, every request of which completes.
LoopNext ==
  \/ /\ op_pc = "ready"
     /\ \E client \in {"kalshi", "polymarket"},
           name \in {"get_markets", "get_markets_by_keyword"} :
          /\ Paged(client, name)
          /\ \E source \in LoopSources : OpCall(client, name, 0, source)
  \/ PageResponse

-----------------------------------------------------------------------------
\* ArbitrageDetector._get_best_price (src/detector.py:330-347)

\* Largest number of outcomes of a market.
MaxOutcomes == 3

\* The outcomes markets are built from: each of the three prices present or
\* absent, with three different values.
DetOutcomes ==
  [name : {<<"Y","e","s">>},
   yes_price : {None, Some(6000)},
   last_trade_price : {None, Some(3000)},
   no_price : {None, Some(2000)},
   bid : {None}, ask : {None}]

\* The first loop (lines 336-340), from outcome k on: the yes_price or else
\* the last_trade_price of the first outcome that has either.
RECURSIVE YesOrLastTrade(_, _)
YesOrLastTrade(outcomes, k) ==
  IF k > Len(outcomes) THEN None
  ELSE IF ~IsNone(outcomes[k].yes_price) THEN outcomes[k].yes_price
  ELSE IF ~IsNone(outcomes[k].last_trade_price) THEN outcomes[k].last_trade_price
  ELSE YesOrLastTrade(outcomes, k + 1)

\* The second loop (lines 343-345): 1.0 - no_price of the first outcome that
\* has a no_price.
RECURSIVE FromNoPrice(_, _)
FromNoPrice(outcomes, k) ==
  IF k > Len(outcomes) THEN None
  ELSE IF ~IsNone(outcomes[k].no_price) THEN Some(Unit - Val(outcomes[k].no_price))
  ELSE FromNoPrice(outcomes, k + 1)

get_best_price(outcomes) ==
  IF outcomes = <<>> THEN None
  ELSE IF ~IsNone(YesOrLastTrade(outcomes, 1)) THEN YesOrLastTrade(outcomes, 1)
  ELSE FromNoPrice(outcomes, 1)

\* Percentages are counted in hundredths of a percent and money in cents.
Cent == 10 * 10

\* self.min_profit_percentage (src/detector.py:17): 2.0 percent.
MinProfitPercentage == 2 * Cent

\* self.default_investment (src/detector.py:18), in dollars.
DefaultInvestment == 1000

\* transaction_cost = required_investment * 0.01 (src/detector.py:111).
TransactionCost == (default_investment * Cent) \div 100

\* Number of concurrent callers of the detector.
NumCallers == 2

Callers == 1..NumCallers

\* A caller that has not called.
NoCall == [pc |-> "idle", op |-> "", given |-> <<>>, object |-> <<>>, output |-> <<>>]

\* ArbitrageDetector.__init__ (src/detector.py:16-18).
DetInit ==
  /\ dt_pc = "ready"
  /\ dt_outcomes = <<>>
  /\ dt_best = None
  /\ dt_op = ""
  /\ dt_input = <<>>
  /\ dt_output = None
  /\ min_profit_percentage = MinProfitPercentage
  /\ default_investment = DefaultInvestment
  /\ dt_calls = [c \in Callers |-> NoCall]

\* _get_best_price(market) is called and returns.
GetBestPrice(outcomes) ==
  /\ dt_pc = "ready"
  /\ dt_pc' = "done"
  /\ dt_outcomes' = outcomes
  /\ dt_best' = get_best_price(outcomes)
  /\ dt_op' = "_get_best_price"
  /\ UNCHANGED <<dt_input, dt_output>>
  /\ UNCHANGED <<min_profit_percentage, default_investment, dt_calls>>
  /\ UNCHANGED notDet

\* A price guard without the cap of its last branch.
normalize_price_uncapped(price) ==
  IF price <= Unit THEN price ELSE price \div 100

\* ArbitrageDetector._normalize_price (src/detector.py:132-140): a price up
\* to 1.0 is kept, a price up to 100 is read as cents, a larger one is capped.
normalize_price(price) ==
  IF price <= Unit THEN price
  ELSE IF price <= 100 * Unit THEN price \div 100
  ELSE Min2(price \div 100, Unit)

\* The prices _normalize_price is called with: both ends and the inside of
\* each of its three ranges, and a negative number.
GuardPrices ==
  {0 - Unit, 0, Unit \div 2, Unit, Unit + 1, 40 * Unit, 100 * Unit,
   100 * Unit + 1, 150 * Unit, 100 * 100 * Unit}

\* _normalize_price(price) is called and returns.
NormalizePrice(price) ==
  /\ dt_pc = "ready"
  /\ dt_pc' = "done"
  /\ dt_op' = "_normalize_price"
  /\ dt_input' = [price |-> price]
  /\ dt_output' = Some(normalize_price(price))
  /\ UNCHANGED <<dt_outcomes, dt_best>>
  /\ UNCHANGED <<min_profit_percentage, default_investment, dt_calls>>
  /\ UNCHANGED notDet


\* An arbitrage calculation that always buys in the first market.
calculate_arbitrage_first_bought(price1, price2) ==
  LET buy_price == normalize_price(price1)
      sell_price == normalize_price(price2)
      price_difference == IF buy_price <= sell_price THEN sell_price - buy_price
                          ELSE buy_price - sell_price
  IN  IF price_difference <= 0 THEN None
      ELSE IF buy_price = 0 THEN None
      ELSE Some([profit_percentage |->
                   (price_difference * 100 * Cent) \div buy_price - Cent,
                 required_investment |-> default_investment,
                 potential_profit |->
                   (default_investment * price_difference * Cent) \div buy_price
                     - TransactionCost,
                 buy_price |-> buy_price,
                 sell_price |-> sell_price,
                 buy_platform |-> "Market 1",
                 sell_platform |-> "Market 2"])

\* ArbitrageDetector._calculate_arbitrage (src/detector.py:73-130).  Prices are
\* in 1/Unit; quotients are truncated.  A buy price of 0 divides by zero at line 104, and
\* the except branch returns None.
calculate_arbitrage(price1, price2) ==
  LET norm_price1 == normalize_price(price1)
      norm_price2 == normalize_price(price2)
      first_cheaper == norm_price1 < norm_price2
      buy_price == IF first_cheaper THEN norm_price1 ELSE norm_price2
      sell_price == IF first_cheaper THEN norm_price2 ELSE norm_price1
      price_difference == sell_price - buy_price
  IN  IF price_difference <= 0 THEN None
      ELSE IF buy_price = 0 THEN None
      ELSE Some([profit_percentage |->
                   (price_difference * 100 * Cent) \div buy_price - Cent,
                 required_investment |-> default_investment,
                 potential_profit |->
                   (default_investment * price_difference * Cent) \div buy_price
                     - TransactionCost,
                 buy_price |-> buy_price,
                 sell_price |-> sell_price,
                 buy_platform |-> IF first_cheaper THEN "Market 1" ELSE "Market 2",
                 sell_platform |-> IF first_cheaper THEN "Market 2" ELSE "Market 1"])

\* The prices _calculate_arbitrage is called with.
ArbitragePrices ==
  {0, Unit \div 10, (40 * Unit) \div 100, Unit \div 2, (53 * Unit) \div 100,
   (55 * Unit) \div 100, Unit, 50 * Unit}

\* _calculate_arbitrage(price1, price2) is called and returns.
CalculateArbitrage(price1, price2) ==
  /\ dt_pc = "ready"
  /\ dt_pc' = "done"
  /\ dt_op' = "_calculate_arbitrage"
  /\ dt_input' = [price1 |-> price1, price2 |-> price2]
  /\ dt_output' = calculate_arbitrage(price1, price2)
  /\ UNCHANGED <<dt_outcomes, dt_best>>
  /\ UNCHANGED <<min_profit_percentage, default_investment, dt_calls>>
  /\ UNCHANGED notDet

\* The market data of a match: absent, data StandardizedMarket rejects, or a
\* market with its total_volume and its close_date (an hour number).
AbsentMarket == <<>>
InvalidMarket == [valid |-> FALSE, total_volume |-> None, close_date |-> None]
ValidMarkets ==
  [valid : {TRUE}, total_volume : {None, Some(500), Some(5000)},
   close_date : {None, Some(0), Some(7 * 24 + 12), Some(10 * 24)}]
MatchMarkets == {AbsentMarket, InvalidMarket} \cup ValidMarkets

\* match.get('similarity_score') and match.get('price_difference'): None is a
\* missing key.
Similarities == {None, Some(0), Some(Unit \div 2), Some(Unit), Some(2 * Unit)}
PriceDifferences == {None, Some(Unit \div 5), Some(Unit \div 2)}

\* match.get('kalshi_price') / match.get('polymarket_price').
MatchPrices ==
  {None, Some(0), Some(Unit \div 10), Some((12 * Unit) \div 100),
   Some(Unit \div 2), Some((53 * Unit) \div 100), Some(50 * Unit)}

Abs(x) == IF x < 0 THEN 0 - x ELSE x

\* timedelta.days of a difference of two datetimes, given in hours: the
\* whole days of the normalized timedelta, rounded towards minus infinity
\* (7 days 12 hours has .days = 7, minus 7 days 12 hours has .days = -8).
Days(hours) == hours \div 24

\* ArbitrageDetector._calculate_risk_score (src/detector.py:142-181).
calculate_risk_score(match, market1, market2) ==
  LET time_risk ==
        IF /\ ~IsNone(market1.close_date)
           /\ ~IsNone(market2.close_date)
           /\ Abs(Days(Val(market1.close_date) - Val(market2.close_date))) > 7
        THEN (3 * Unit) \div 10 ELSE 0
      volume(m) == IF IsNone(m.total_volume) THEN 0 ELSE Val(m.total_volume)
      liquidity_risk ==
        IF Min2(volume(market1), volume(market2)) < 1000
        THEN (2 * Unit) \div 10 ELSE 0
      platform_risk == Unit \div 10
      similarity_score ==
        IF IsNone(match.similarity_score) THEN Unit \div 2
        ELSE Val(match.similarity_score)
      similarity_risk == ((Unit - similarity_score) * 4) \div 10
      price_diff ==
        IF IsNone(match.price_difference) THEN 0
        ELSE Val(match.price_difference)
      price_risk == IF price_diff > (3 * Unit) \div 10 THEN (3 * Unit) \div 10 ELSE 0
  IN  Min2(time_risk + liquidity_risk + platform_risk + similarity_risk
             + price_risk, Unit)

\* Field(ge=0, le=1) of ArbitrageOpportunity (src/market_data.py:95-99).
InUnitInterval(x) == 0 <= x /\ x <= Unit

\* ArbitrageDetector.analyze_opportunity (src/detector.py:20-71).  Every
\* exception, the validation errors of the models included, ends in the
\* except branch, which returns None.
analyze_opportunity(match) ==
  LET kalshi_market_data == match.kalshi_market
      polymarket_market_data == match.polymarket_market
      arbitrage_calc ==
        calculate_arbitrage(Val(match.kalshi_price), Val(match.polymarket_price))
      risk_score ==
        calculate_risk_score(match, kalshi_market_data, polymarket_market_data)
      confidence ==
        IF IsNone(match.similarity_score) THEN 0
        ELSE Val(match.similarity_score)
  IN  IF kalshi_market_data = AbsentMarket \/ polymarket_market_data = AbsentMarket
      THEN None
      ELSE IF ~kalshi_market_data.valid \/ ~polymarket_market_data.valid
      THEN None
      ELSE IF IsNone(match.kalshi_price) \/ IsNone(match.polymarket_price)
      THEN None
      ELSE IF IsNone(arbitrage_calc) THEN None
      ELSE IF Val(arbitrage_calc).profit_percentage < min_profit_percentage
      THEN None
      ELSE IF ~InUnitInterval(risk_score) \/ ~InUnitInterval(confidence)
      THEN None
      ELSE Some([market_1 |-> kalshi_market_data,
                 market_2 |-> polymarket_market_data,
                 profit_percentage |-> Val(arbitrage_calc).profit_percentage,
                 required_investment |-> Val(arbitrage_calc).required_investment,
                 potential_profit |-> Val(arbitrage_calc).potential_profit,
                 risk_score |-> risk_score,
                 confidence_score |-> confidence,
                 similarity_score |-> confidence,
                 price_difference |->
                   Abs(Val(match.kalshi_price) - Val(match.polymarket_price))])

Matches ==
  [kalshi_market : MatchMarkets, polymarket_market : MatchMarkets,
   kalshi_price : MatchPrices, polymarket_price : MatchPrices,
   similarity_score : Similarities, price_difference : PriceDifferences]

\* analyze_opportunity(match) is called and returns.
AnalyzeOpportunity(match) ==
  /\ dt_pc = "ready"
  /\ dt_pc' = "done"
  /\ dt_op' = "analyze_opportunity"
  /\ dt_input' = match
  /\ dt_output' = analyze_opportunity(match)
  /\ UNCHANGED <<dt_outcomes, dt_best>>
  /\ UNCHANGED <<min_profit_percentage, default_investment, dt_calls>>
  /\ UNCHANGED notDet

\* _calculate_risk_score(match, market1, market2) is called and returns.
CalculateRiskScore(match, market1, market2) ==
  /\ dt_pc = "ready"
  /\ dt_pc' = "done"
  /\ dt_op' = "_calculate_risk_score"
  /\ dt_input' = [match |-> match, market1 |-> market1, market2 |-> market2]
  /\ dt_output' = Some(calculate_risk_score(match, market1, market2))
  /\ UNCHANGED <<dt_outcomes, dt_best>>
  /\ UNCHANGED <<min_profit_percentage, default_investment, dt_calls>>
  /\ UNCHANGED notDet

Min3(a, b, c) == Min2(a, Min2(b, c))

\* ArbitrageDetector.calculate_optimal_bet_sizing (src/detector.py:183-229).
\* Money is in dollars, fractions in 1/Unit.  A profit_ratio of 0 divides by
\* zero at line 199 and an available_capital of 0 at line 216; the except
\* branch answers both.
calculate_optimal_bet_sizing(opportunity, available_capital, max_position_size) ==
  LET win_probability == Unit - opportunity.risk_score
      profit_ratio == opportunity.profit_percentage
      kelly_fraction == ((win_probability * profit_ratio) \div profit_ratio) \div 2
      max_position == (available_capital * max_position_size) \div Unit
      optimal_investment ==
        Min3((kelly_fraction * available_capital) \div Unit, max_position,
             opportunity.required_investment)
  IN  IF profit_ratio = 0 \/ available_capital = 0
      THEN [optimal_investment |-> opportunity.required_investment,
            kelly_fraction |-> 0,
            position_percentage |-> 0,
            expected_profit |-> 0,
            max_loss |-> 0]
      ELSE [optimal_investment |-> optimal_investment,
            kelly_fraction |-> kelly_fraction,
            position_percentage |-> (optimal_investment * 100 * Cent) \div available_capital,
            expected_profit |->
              (optimal_investment * Cent * ((profit_ratio * win_probability) \div Unit))
                \div Unit,
            max_loss |-> (optimal_investment * opportunity.risk_score) \div Unit]

\* The opportunities, capitals (in dollars) and position limits of the sizing.
SizingOpportunities ==
  [risk_score : {0, (3 * Unit) \div 10, Unit},
   profit_percentage : {MinProfitPercentage, 19 * Cent},
   required_investment : {DefaultInvestment}]
Capitals == {0, 500, 20000}
MaxPositionSizes == {Unit \div 10, Unit \div 2}

\* calculate_optimal_bet_sizing(opportunity, available_capital,
\* max_position_size) is called and returns.
CalculateOptimalBetSizing(opportunity, available_capital, max_position_size) ==
  /\ dt_pc = "ready"
  /\ dt_pc' = "done"
  /\ dt_op' = "calculate_optimal_bet_sizing"
  /\ dt_input' = [opportunity |-> opportunity,
                  available_capital |-> available_capital,
                  max_position_size |-> max_position_size]
  /\ dt_output' = Some(calculate_optimal_bet_sizing(opportunity, available_capital,
                                                    max_position_size))
  /\ UNCHANGED <<dt_outcomes, dt_best>>
  /\ UNCHANGED <<min_profit_percentage, default_investment, dt_calls>>
  /\ UNCHANGED notDet

\* min_spread of _calculate_arbitrage_opportunity (src/detector.py:286): 0.03.
MinSpread == 300

\* _calculate_arbitrage_opportunity with the comparison of line 290 left out,
\* so that the first market is always the one bought: a faulty variant, against
\* which the symmetry of the evaluation is tested.
calculate_arbitrage_opportunity_first_bought(kalshi_market, polymarket_market) ==
  LET kalshi_price == get_best_price(kalshi_market.outcomes)
      polymarket_price == get_best_price(polymarket_market.outcomes)
      spread == Abs(Val(kalshi_price) - Val(polymarket_price))
      profit_per_dollar == Val(polymarket_price) - Val(kalshi_price)
  IN  IF IsNone(kalshi_price) \/ IsNone(polymarket_price) THEN None
      ELSE IF spread < MinSpread THEN None
      ELSE Some([kalshi_market |-> kalshi_market,
                 polymarket_market |-> polymarket_market,
                 kalshi_price |-> Val(kalshi_price),
                 polymarket_price |-> Val(polymarket_price),
                 spread |-> spread,
                 profit_percentage |-> (profit_per_dollar * 100 * Cent) \div Unit,
                 profit_per_dollar |-> profit_per_dollar,
                 buy_market |-> "kalshi",
                 sell_market |-> "polymarket",
                 buy_price |-> Val(kalshi_price),
                 sell_price |-> Val(polymarket_price)])

\* ArbitrageDetector._calculate_arbitrage_opportunity (src/detector.py:266-328).
calculate_arbitrage_opportunity(kalshi_market, polymarket_market) ==
  LET kalshi_price == get_best_price(kalshi_market.outcomes)
      polymarket_price == get_best_price(polymarket_market.outcomes)
      spread == Abs(Val(kalshi_price) - Val(polymarket_price))
      kalshi_cheaper == Val(kalshi_price) < Val(polymarket_price)
      buy_price == IF kalshi_cheaper THEN Val(kalshi_price) ELSE Val(polymarket_price)
      sell_price == IF kalshi_cheaper THEN Val(polymarket_price) ELSE Val(kalshi_price)
      profit_per_dollar == sell_price - buy_price
  IN  IF IsNone(kalshi_price) \/ IsNone(polymarket_price) THEN None
      ELSE IF spread < MinSpread THEN None
      ELSE Some([kalshi_market |-> kalshi_market,
                 polymarket_market |-> polymarket_market,
                 kalshi_price |-> Val(kalshi_price),
                 polymarket_price |-> Val(polymarket_price),
                 spread |-> spread,
                 profit_percentage |-> (profit_per_dollar * 100 * Cent) \div Unit,
                 profit_per_dollar |-> profit_per_dollar,
                 buy_market |-> IF kalshi_cheaper THEN "kalshi" ELSE "polymarket",
                 sell_market |-> IF kalshi_cheaper THEN "polymarket" ELSE "kalshi",
                 buy_price |-> buy_price,
                 sell_price |-> sell_price])

\* kalshi_lookup.get(kalshi_id) (src/detector.py:242-251): the last market of
\* the list with that id, or None.
RECURSIVE Lookup(_, _, _)
Lookup(markets, id, k) ==
  IF k = 0 THEN None
  ELSE IF markets[k].id = id THEN Some(markets[k])
  ELSE Lookup(markets, id, k - 1)

\* The loop of detect_arbitrage_from_pairs (src/detector.py:245-261), from
\* pair k on.
RECURSIVE PairsFrom(_, _, _, _)
PairsFrom(pairs, kalshi_markets, polymarket_markets, k) ==
  IF k > Len(pairs) THEN <<>>
  ELSE
    LET kalshi_market == Lookup(kalshi_markets, pairs[k].kalshi_id, Len(kalshi_markets))
        polymarket_market ==
          Lookup(polymarket_markets, pairs[k].polymarket_id, Len(polymarket_markets))
        rest == PairsFrom(pairs, kalshi_markets, polymarket_markets, k + 1)
    IN  IF IsNone(kalshi_market) \/ IsNone(polymarket_market) THEN rest
        ELSE calculate_arbitrage_opportunity(Val(kalshi_market), Val(polymarket_market))
               \o rest

\* ArbitrageDetector.detect_arbitrage_from_pairs (src/detector.py:231-264).
detect_arbitrage_from_pairs(pairs, kalshi_markets, polymarket_markets) ==
  PairsFrom(pairs, kalshi_markets, polymarket_markets, 1)

\* Largest number of pairs handed to detect_arbitrage_from_pairs.
MaxPairs == 2

\* The markets of the pairs path: one outcome each, with or without a price.
PairPrices ==
  {None, Some(Unit \div 10), Some((12 * Unit) \div 100), Some(Unit \div 2),
   Some((53 * Unit) \div 100), Some((9 * Unit) \div 10),
   Some((40 * Unit) \div 100), Some((55 * Unit) \div 100)}
PairOutcome(price) ==
  [name |-> <<"Y","e","s">>, yes_price |-> price, last_trade_price |-> None,
   no_price |-> None, bid |-> None, ask |-> None]
PairMarkets(id) == {[id |-> id, outcomes |-> <<PairOutcome(p)>>] : p \in PairPrices}
Pairs == SeqsUpTo([kalshi_id : {"k1", "k9"}, polymarket_id : {"p1"}], MaxPairs)

\* detect_arbitrage_from_pairs(pairs, kalshi_markets, polymarket_markets) is
\* called and returns.
DetectArbitrageFromPairs(pairs, kalshi_markets, polymarket_markets) ==
  /\ dt_pc = "ready"
  /\ dt_pc' = "done"
  /\ dt_op' = "detect_arbitrage_from_pairs"
  /\ dt_input' = [pairs |-> pairs, kalshi_markets |-> kalshi_markets,
                  polymarket_markets |-> polymarket_markets]
  /\ dt_output' = detect_arbitrage_from_pairs(pairs, kalshi_markets, polymarket_markets)
  /\ UNCHANGED <<dt_outcomes, dt_best>>
  /\ UNCHANGED <<min_profit_percentage, default_investment, dt_calls>>
  /\ UNCHANGED notDet

\* The inputs are drawn only where a call can start.
DetNext ==
  \/ /\ dt_pc = "ready"
     /\ \E outcomes \in SeqsUpTo(DetOutcomes, MaxOutcomes) : GetBestPrice(outcomes)
  \/ /\ dt_pc = "ready"
     /\ \E price \in GuardPrices : NormalizePrice(price)
  \/ /\ dt_pc = "ready"
     /\ \E price1 \in ArbitragePrices, price2 \in ArbitragePrices :
          CalculateArbitrage(price1, price2)
  \/ /\ dt_pc = "ready"
     /\ \E match \in Matches : AnalyzeOpportunity(match)
  \/ /\ dt_pc = "ready"
     /\ \E match \in [similarity_score : Similarities,
                      price_difference : PriceDifferences],
           market1 \in ValidMarkets, market2 \in ValidMarkets :
          CalculateRiskScore(match, market1, market2)
  \/ /\ dt_pc = "ready"
     /\ \E opportunity \in SizingOpportunities, available_capital \in Capitals,
           max_position_size \in MaxPositionSizes :
          CalculateOptimalBetSizing(opportunity, available_capital, max_position_size)
  \/ /\ dt_pc = "ready"
     /\ \E pairs \in Pairs, km \in PairMarkets("k1"), pm \in PairMarkets("p1") :
          DetectArbitrageFromPairs(pairs, <<km>>, <<pm>>)

\* ---- Concurrent callers of one detector

\* A detector that raises its profit threshold whenever it has analyzed a
\* match.
DetectorAfterAdapting(op) ==
  [min_profit_percentage |->
     IF op = "analyze_opportunity" THEN min_profit_percentage + Cent
     ELSE min_profit_percentage,
   default_investment |-> default_investment]

\* The fields of the detector when an operation returns: __init__ holds the
\* only assignments to self (src/detector.py:17-18), so they are what they
\* were.
DetectorAfter(op) ==
  [min_profit_percentage |-> min_profit_percentage,
   default_investment |-> default_investment]

\* The argument objects when an operation returns: the match, the markets, the
\* pairs and the opportunity are read only; analyze_opportunity builds new
\* StandardizedMarket objects from the dicts of the match.
InputAfter(op, input) == input

\* What the three public operations return for their arguments.
Apply(op, input) ==
  CASE op = "analyze_opportunity" -> analyze_opportunity(input)
    [] op = "detect_arbitrage_from_pairs" ->
         detect_arbitrage_from_pairs(input.pairs, input.kalshi_markets,
                                     input.polymarket_markets)
    [] op = "calculate_optimal_bet_sizing" ->
         calculate_optimal_bet_sizing(input.opportunity, input.available_capital,
                                      input.max_position_size)

\* The calls of the concurrent callers: matches with and without a profit
\* above the threshold, a pair with and without a spread, and sizings.
SharedMatches ==
  [kalshi_market : {[valid |-> TRUE, total_volume |-> Some(5000),
                     close_date |-> None]},
   polymarket_market : {[valid |-> TRUE, total_volume |-> None,
                         close_date |-> None]},
   kalshi_price : {Some(Unit \div 2), Some((53 * Unit) \div 100)},
   polymarket_price : {Some(Unit \div 2), Some((51 * Unit) \div 100)},
   similarity_score : {Some(Unit)}, price_difference : {None}]

SharedPairInputs ==
  [pairs : {<<[kalshi_id |-> "k1", polymarket_id |-> "p1"]>>},
   kalshi_markets : {<<km>> : km \in PairMarkets("k1")},
   polymarket_markets :
     {<<[id |-> "p1", outcomes |-> <<PairOutcome(Some((55 * Unit) \div 100))>>]>>}]

SharedSizings ==
  [opportunity : {o \in SizingOpportunities : o.risk_score # Unit},
   available_capital : {500}, max_position_size : {Unit \div 10}]

\* A caller calls an operation of the detector.
SharedCall(c, op, input) ==
  /\ dt_pc = "ready"
  /\ dt_calls[c].pc = "idle"
  /\ dt_calls' = [dt_calls EXCEPT ![c] =
                    [pc |-> "running", op |-> op, given |-> input,
                     object |-> input, output |-> <<>>]]
  /\ UNCHANGED <<dt_pc, dt_outcomes, dt_best, dt_op, dt_input, dt_output>>
  /\ UNCHANGED <<min_profit_percentage, default_investment>>
  /\ UNCHANGED notDet

\* The operation of a caller runs and returns.
SharedReturn(c) ==
  /\ dt_calls[c].pc = "running"
  /\ dt_calls' = [dt_calls EXCEPT ![c] =
                    [@ EXCEPT !.pc = "done",
                              !.output = <<Apply(dt_calls[c].op, dt_calls[c].object)>>,
                              !.object = InputAfter(dt_calls[c].op, dt_calls[c].object)]]
  /\ min_profit_percentage' = DetectorAfter(dt_calls[c].op).min_profit_percentage
  /\ default_investment' = DetectorAfter(dt_calls[c].op).default_investment
  /\ UNCHANGED <<dt_pc, dt_outcomes, dt_best, dt_op, dt_input, dt_output>>
  /\ UNCHANGED notDet

SharedNext ==
  \/ \E c \in Callers, match \in SharedMatches :
       SharedCall(c, "analyze_opportunity", match)
  \/ \E c \in Callers, input \in SharedPairInputs :
       SharedCall(c, "detect_arbitrage_from_pairs", input)
  \/ \E c \in Callers, input \in SharedSizings :
       SharedCall(c, "calculate_optimal_bet_sizing", input)
  \/ \E c \in Callers : SharedReturn(c)

-----------------------------------------------------------------------------
\* KalshiClient: key material and request signing
\* (src/kalshi_client.py:27-213, src/base_client.py:36-60)

\* Largest number of _make_request calls of a client.
MaxCalls == 2

\* Latest reading of the clock, in ms.
MaxAuthClock == 1

\* What settings.load_kalshi_api_secret() gave: nothing, a text that is not a
\* PEM key, or a PEM key.
Secrets == {"none", "bad", "pem"}

\* _load_private_key (lines 36-49): whether self.private_key is loaded.  A
\* text load_pem_private_key rejects leaves it None; nothing is raised.
load_private_key(api_secret) == api_secret = "pem"

Methods == {"GET", "POST"}

\* Endpoints, as sequences of path pieces.
Endpoints == {<<"markets">>, <<"/", "events">>}

\* endpoint.lstrip('/')
RECURSIVE LStrip(_)
LStrip(endpoint) ==
  IF endpoint # <<>> /\ Head(endpoint) = "/" THEN LStrip(Tail(endpoint))
  ELSE endpoint

\* path = f"/trade-api/v2/{endpoint.lstrip('/')}" (line 135)
Path(endpoint) == <<"/trade-api/v2/">> \o LStrip(endpoint)

\* url = f"{self.base_url}/{endpoint.lstrip('/')}" (line 160), without the
\* host: the base URL of the Kalshi API ends in /trade-api/v2.
UrlPath(endpoint) == <<"/trade-api/v2/">> \o LStrip(endpoint)

\* The path of the generic signature of _get_auth_headers (line 64).
GenericPath == <<"/trade-api/v2/", "markets">>

\* private_key.sign(message, PSS, SHA256), base64-encoded: the message signed
\* and the signing operation that made it (PSS signatures are salted, so two
\* signing operations never give the same signature).
Signature(timestamp, method, path, signing) ==
  [message |-> <<timestamp, method, path>>, signing |-> signing]

\* _sign_request with the method and path of _get_auth_headers in place of
\* those of the request: a faulty variant, against which the signing of
\* requests is tested.
sign_request_generic(method, path, timestamp, signing) ==
  Signature(timestamp, "GET", GenericPath, signing)

\* _sign_request (lines 92-116), with the private key loaded.
sign_request(method, path, timestamp, signing) ==
  Signature(timestamp, method, path, signing)

\* _get_auth_headers (lines 51-90): the three auth headers, or none.
get_auth_headers(api_key, private_key, timestamp, signing) ==
  IF ~api_key \/ ~private_key THEN None
  ELSE Some([key |-> api_key,
             signature |-> Signature(timestamp, "GET", GenericPath, signing),
             timestamp |-> timestamp])

\* BaseAPIClient._get_default_headers (base_client.py:49-60), its auth part.
get_default_headers(api_key, private_key, timestamp, signing) ==
  IF api_key THEN get_auth_headers(api_key, private_key, timestamp, signing)
  ELSE None

\* The test of line 144 with its private-key half left out: a faulty variant,
\* against which the handling of missing key material is tested.
ShouldSignKeyOnly(api_key, private_key) == api_key

\* `if self.api_key and self.private_key` (line 144)
ShouldSign(api_key, private_key) == api_key /\ private_key

\* aiohttp merges the headers of a request over the session's defaults: a
\* header the request gives replaces the default of the same name.
WireHeaders(session_headers, request_headers) ==
  IF ~IsNone(request_headers) THEN request_headers ELSE session_headers

\* The answers of the server (lines 187-199).
Statuses == {200, 401, 429}

AuthInit ==
  /\ au_pc = "new"
  /\ au_api_key = FALSE
  /\ au_private_key = FALSE
  /\ au_session_headers = None
  /\ au_now = 0
  /\ au_signed = 0
  /\ au_calls = <<>>
  /\ au_sent = <<>>

\* KalshiClient.__init__ (lines 27-34)
Construct(api_key, api_secret) ==
  /\ au_pc = "new"
  /\ au_pc' = "constructed"
  /\ au_api_key' = api_key
  /\ au_private_key' = load_private_key(api_secret)
  /\ UNCHANGED <<au_session_headers, au_now, au_signed, au_calls, au_sent>>
  /\ UNCHANGED notAuth

\* BaseAPIClient.__aenter__ (base_client.py:36-42): the session is created
\* with the default headers.
Enter ==
  /\ au_pc = "constructed"
  /\ au_pc' = "open"
  /\ au_session_headers' =
       get_default_headers(au_api_key, au_private_key, au_now, au_signed + 1)
  /\ au_signed' = IF au_api_key /\ au_private_key THEN au_signed + 1 ELSE au_signed
  /\ UNCHANGED <<au_api_key, au_private_key, au_now, au_calls, au_sent>>
  /\ UNCHANGED notAuth

\* _make_request without a session (lines 128-129): RuntimeError.
MakeRequestNoSession(method, endpoint) ==
  /\ au_pc = "constructed"
  /\ Len(au_calls) < MaxCalls
  /\ au_calls' = Append(au_calls,
       [method |-> method, endpoint |-> endpoint, timestamp |-> None,
        headers |-> None, pc |-> "raised", error |-> "no_session"])
  /\ UNCHANGED <<au_pc, au_api_key, au_private_key, au_session_headers, au_now,
                 au_signed, au_sent>>
  /\ UNCHANGED notAuth

\* _make_request up to its first await (lines 128-176): the timestamp is
\* read, the request is signed when the key material is there, and the call
\* waits to send.  _sign_request raises without a private key (line 95), which
\* line 154 turns into APIError("Authentication failed").
MakeRequestCall(method, endpoint) ==
  /\ au_pc = "open"
  /\ Len(au_calls) < MaxCalls
  /\ LET timestamp == au_now
         path == Path(endpoint)
         signs == ShouldSign(au_api_key, au_private_key)
         call == [method |-> method, endpoint |-> endpoint,
                  timestamp |-> Some(timestamp)]
     IN  IF signs /\ ~au_private_key
         THEN /\ au_calls' = Append(au_calls,
                   call @@ [headers |-> None, pc |-> "raised", error |-> "auth"])
              /\ UNCHANGED au_signed
         ELSE IF signs
         THEN /\ au_calls' = Append(au_calls,
                   call @@ [headers |->
                              Some([key |-> au_api_key,
                                    signature |-> sign_request(method, path, timestamp,
                                                               au_signed + 1),
                                    timestamp |-> timestamp]),
                            pc |-> "waiting", error |-> "none"])
              /\ au_signed' = au_signed + 1
         ELSE /\ au_calls' = Append(au_calls,
                   call @@ [headers |-> None, pc |-> "waiting", error |-> "none"])
              /\ UNCHANGED au_signed
  /\ UNCHANGED <<au_pc, au_api_key, au_private_key, au_session_headers, au_now, au_sent>>
  /\ UNCHANGED notAuth

\* session.request(method, url, headers=request_headers) (lines 179-185)
SendRequest(c) ==
  /\ au_calls[c].pc = "waiting"
  /\ au_calls' = [au_calls EXCEPT ![c].pc = "sent"]
  /\ au_sent' = Append(au_sent,
       [call |-> c, method |-> au_calls[c].method,
        path |-> UrlPath(au_calls[c].endpoint),
        headers |-> WireHeaders(au_session_headers, au_calls[c].headers)])
  /\ UNCHANGED <<au_pc, au_api_key, au_private_key, au_session_headers, au_now, au_signed>>
  /\ UNCHANGED notAuth

\* The response (lines 187-206): 429 and any other status >= 400 raise
\* APIError, anything else returns the parsed body.
Respond(c, status) ==
  /\ au_calls[c].pc = "sent"
  /\ au_calls' =
       [au_calls EXCEPT
          ![c].pc = IF status >= 400 THEN "raised" ELSE "returned",
          ![c].error = IF status = 429 THEN "rate_limit"
                       ELSE IF status >= 400 THEN "http" ELSE "none"]
  /\ UNCHANGED <<au_pc, au_api_key, au_private_key, au_session_headers, au_now,
                 au_signed, au_sent>>
  /\ UNCHANGED notAuth

\* Time passes.
AuthTick ==
  /\ au_pc \in {"constructed", "open"}
  /\ au_now < MaxAuthClock
  /\ au_now' = au_now + 1
  /\ UNCHANGED <<au_pc, au_api_key, au_private_key, au_session_headers, au_signed,
                 au_calls, au_sent>>
  /\ UNCHANGED notAuth

AuthNext ==
  \/ \E api_key \in BOOLEAN, api_secret \in Secrets : Construct(api_key, api_secret)
  \/ Enter
  \/ \E method \in Methods, endpoint \in Endpoints : MakeRequestNoSession(method, endpoint)
  \/ \E method \in Methods, endpoint \in Endpoints : MakeRequestCall(method, endpoint)
  \/ \E c \in 1..Len(au_calls) : SendRequest(c)
  \/ \E c \in 1..Len(au_calls), status \in Statuses : Respond(c, status)
  \/ AuthTick

-----------------------------------------------------------------------------
\* scanner_demo.main (src/scanner_demo.py:40-100)

\* Largest number of markets a keyword search returns to the scanner.
MaxFound == 3

\* Largest value of --limit.
MaxScanLimit == 2

ScanLimits == 0..MaxScanLimit

\* What `await kc.get_markets_by_keyword(keyword)` does: it returns a list of
\* n markets or raises APIError (kalshi_client.py:304-306).
KalshiFetchOutcomes ==
  [raised : {TRUE}, n : {0}] \cup [raised : {FALSE}, n : 0..MaxFound]

\* What `await pc.get_markets_by_keyword(keyword)` does: it returns a list of
\* n markets, the empty list when a request failed (polymarket_client.py:380-382).
PolyFetchOutcomes == [raised : {FALSE}, n : 0..MaxFound]

\* markets[: args.limit]
Truncated(n, limit) == IF n <= limit THEN n ELSE limit

\* The state of main at line 52: the arguments parsed, both lists empty.
ScanInit ==
  /\ sc_pc = "start"
  /\ sc_limit \in ScanLimits
  /\ sc_kalshi = "pending"
  /\ sc_poly = "pending"
  /\ sc_found = <<>>
  /\ sc_kalshi_markets = 0
  /\ sc_poly_markets = 0

\* `async with kalshi as kc, poly as pc:` (line 61): both sessions are created.
ScanEnter ==
  /\ sc_pc = "start"
  /\ sc_pc' = "entered"
  /\ UNCHANGED <<sc_limit, sc_kalshi, sc_poly, sc_found, sc_kalshi_markets, sc_poly_markets>>
  /\ UNCHANGED notScan

\* Line 63: main calls kc.get_markets_by_keyword and waits for it.
KalshiFetchStart ==
  /\ sc_pc = "entered"
  /\ sc_pc' = "kalshi"
  /\ sc_kalshi' = "running"
  /\ UNCHANGED <<sc_limit, sc_poly, sc_found, sc_kalshi_markets, sc_poly_markets>>
  /\ UNCHANGED notScan

\* Lines 62-65: the awaited call returns, and its list is assigned, or raises,
\* and the error is logged.
KalshiFetchEnd(outcome) ==
  /\ sc_pc = "kalshi"
  /\ sc_pc' = "between"
  /\ sc_kalshi' = IF outcome.raised THEN "raised" ELSE "returned"
  /\ sc_kalshi_markets' = IF outcome.raised THEN sc_kalshi_markets ELSE outcome.n
  /\ sc_found' = [kalshi |-> outcome]
  /\ UNCHANGED <<sc_limit, sc_poly, sc_poly_markets>>
  /\ UNCHANGED notScan

\* Line 67: main calls pc.get_markets_by_keyword and waits for it.
PolyFetchStart ==
  /\ sc_pc = "between"
  /\ sc_pc' = "poly"
  /\ sc_poly' = "running"
  /\ UNCHANGED <<sc_limit, sc_kalshi, sc_found, sc_kalshi_markets, sc_poly_markets>>
  /\ UNCHANGED notScan

\* Lines 66-69
PolyFetchEnd(outcome) ==
  /\ sc_pc = "poly"
  /\ sc_pc' = "fetched"
  /\ sc_poly' = IF outcome.raised THEN "raised" ELSE "returned"
  /\ sc_poly_markets' = IF outcome.raised THEN sc_poly_markets ELSE outcome.n
  /\ sc_found' = [kalshi |-> sc_found.kalshi, poly |-> outcome]
  /\ UNCHANGED <<sc_limit, sc_kalshi, sc_kalshi_markets>>
  /\ UNCHANGED notScan

\* Lines 72-73: both lists are cut to args.limit; the report follows.
ScanTruncate ==
  /\ sc_pc = "fetched"
  /\ sc_pc' = "reported"
  /\ sc_kalshi_markets' = Truncated(sc_kalshi_markets, sc_limit)
  /\ sc_poly_markets' = Truncated(sc_poly_markets, sc_limit)
  /\ UNCHANGED <<sc_limit, sc_kalshi, sc_poly, sc_found>>
  /\ UNCHANGED notScan

ScanNext ==
  \/ ScanEnter
  \/ KalshiFetchStart
  \/ \E outcome \in KalshiFetchOutcomes : KalshiFetchEnd(outcome)
  \/ PolyFetchStart
  \/ \E outcome \in PolyFetchOutcomes : PolyFetchEnd(outcome)
  \/ ScanTruncate

-----------------------------------------------------------------------------
\* NordVPNManager (src/nordvpn_manager.py)

\* Largest max_retries passed to ensure_connection.
MaxVpnRetries == 2

\* The argument country: None or a country name.
Countries == {None, Some("us")}

\* What `netsh interface show interface` does: return code 0 with a connected
\* VPN interface in the output, return code 0 without one, another return
\* code, or an exception of subprocess.run (timeout, no such program).
Probes == {"vpn_up", "vpn_down", "failed", "error"}

\* What `nordvpn -c` of the fallback does: an output that says already
\* connected, one that says connected with success, another output, or an
\* exception of subprocess.run.
Fallbacks == {"already", "newly", "refused", "error"}

\* What `nordvpn -v` does: return code 0, another return code, an exception.
Installs == {"ok", "bad", "error"}

\* What `nordvpn -c -g country` does: return code 0, another return code, a
\* timeout.
Connects == {"ok", "refused", "timeout"}

\* The command lines handed to subprocess.run.
NetshShow == "netsh interface show interface"
NordVersion == "nordvpn -v"
NordConnect == "nordvpn -c"
NordConnectCountry == "nordvpn -c -g"

\* The commands that ask NordVPN to connect.
ConnectCommands == {NordConnect, NordConnectCountry}

StatusConnected == [connected |-> TRUE, server |-> Some("NordVPN Connected")]
StatusDisconnected == [connected |-> FALSE, server |-> None]

\* _check_status_via_connect_attempt: runs `nordvpn -c` and reads its output.
check_status_via_connect_attempt(fallback) ==
  [status |-> IF fallback \in {"already", "newly"}
                THEN StatusConnected ELSE StatusDisconnected,
   commands |-> <<NordConnect>>]

\* get_status: the tuple it returns, which it also stores in is_connected and
\* current_server, and the commands it runs.
get_status(probe, fallback) ==
  IF probe = "vpn_up" THEN [status |-> StatusConnected, commands |-> <<NetshShow>>]
  ELSE IF probe = "vpn_down"
    THEN [status |-> StatusDisconnected, commands |-> <<NetshShow>>]
  ELSE [status |-> check_status_via_connect_attempt(fallback).status,
        commands |-> <<NetshShow>> \o check_status_via_connect_attempt(fallback).commands]

\* `country or NORDVPN_COUNTRY`: the module defines and imports no name
\* NORDVPN_COUNTRY, so evaluating the right operand raises NameError.
CountryRaises(country) == IsNone(country)

\* connect(country): the value returned, the status a nested get_status has
\* stored (<<>>: none was made) and the commands run.
connect(country, install, outcome, probe, fallback) ==
  IF install # "ok"
    THEN [result |-> FALSE, status |-> <<>>, commands |-> <<NordVersion>>]
  ELSE IF CountryRaises(country)
    THEN [result |-> FALSE, status |-> <<>>, commands |-> <<NordVersion>>]
  ELSE IF outcome # "ok"
    THEN [result |-> FALSE, status |-> <<>>,
          commands |-> <<NordVersion, NordConnectCountry>>]
  ELSE [result |-> TRUE, status |-> <<get_status(probe, fallback).status>>,
        commands |-> <<NordVersion, NordConnectCountry>>
                       \o get_status(probe, fallback).commands]

\* The manager as the module constructs it (line 247).
VpnInit ==
  /\ vp_pc = "idle"
  /\ vp_op = ""
  /\ is_connected = FALSE
  /\ current_server = None
  /\ vp_country = None
  /\ vp_max_retries = 0
  /\ vp_attempt = 0
  /\ vp_commands = <<>>
  /\ vp_connects = 0
  /\ vp_sleeps = <<>>
  /\ vp_status = <<>>
  /\ vp_result = <<>>

\* The check of PolymarketClient._make_request before a request
\* (polymarket_client.py:53-57): vpn_manager.get_status().
AvailabilityCheck(probe, fallback) ==
  /\ vp_pc = "idle"
  /\ vp_pc' = "returned"
  /\ vp_op' = "get_status"
  /\ vp_status' = <<get_status(probe, fallback).status>>
  /\ is_connected' = get_status(probe, fallback).status.connected
  /\ current_server' = get_status(probe, fallback).status.server
  /\ vp_commands' = get_status(probe, fallback).commands
  /\ vp_result' = <<get_status(probe, fallback).status.connected>>
  /\ UNCHANGED <<vp_country, vp_max_retries, vp_attempt, vp_connects, vp_sleeps>>
  /\ UNCHANGED notVpn

\* ensure_connection(country, max_retries) up to the loop (lines 200-207).
EnsureConnection(country, retries, probe, fallback) ==
  /\ vp_pc = "idle"
  /\ vp_op' = "ensure_connection"
  /\ vp_country' = country
  /\ vp_max_retries' = retries
  /\ vp_status' = <<get_status(probe, fallback).status>>
  /\ is_connected' = get_status(probe, fallback).status.connected
  /\ current_server' = get_status(probe, fallback).status.server
  /\ vp_commands' = get_status(probe, fallback).commands
  /\ vp_attempt' = 1
  /\ IF get_status(probe, fallback).status.connected
       THEN vp_pc' = "returned" /\ vp_result' = <<TRUE>>
     ELSE IF CountryRaises(country)
       THEN vp_pc' = "raised" /\ vp_result' = <<>>
     ELSE vp_pc' = "loop" /\ vp_result' = <<>>
  /\ UNCHANGED <<vp_connects, vp_sleeps>>
  /\ UNCHANGED notVpn

\* One pass of the loop (lines 210-230): connect, the verifying get_status
\* when connect returned True, and the sleep before the next pass.
EnsureAttempt(install, outcome, probe, fallback, verify_probe, verify_fallback) ==
  LET c == connect(vp_country, install, outcome, probe, fallback)
      v == get_status(verify_probe, verify_fallback)
      last == IF c.result THEN <<v.status>>
              ELSE IF c.status # <<>> THEN c.status ELSE vp_status
  IN /\ vp_pc = "loop"
     /\ vp_attempt <= vp_max_retries
     /\ vp_connects' = vp_connects + 1
     /\ vp_commands' = vp_commands \o c.commands \o (IF c.result THEN v.commands ELSE <<>>)
     /\ vp_status' = last
     /\ is_connected' = (IF c.result THEN v.status.connected ELSE is_connected)
     /\ current_server' = (IF c.result THEN v.status.server ELSE current_server)
     /\ IF c.result /\ v.status.connected
          THEN /\ vp_pc' = "returned"
               /\ vp_result' = <<TRUE>>
               /\ UNCHANGED <<vp_attempt, vp_sleeps>>
          ELSE /\ vp_pc' = "loop"
               /\ vp_attempt' = vp_attempt + 1
               /\ vp_sleeps' = IF vp_attempt < vp_max_retries
                                 THEN Append(vp_sleeps, 2 * vp_attempt)
                                 ELSE vp_sleeps
               /\ UNCHANGED vp_result
     /\ UNCHANGED <<vp_op, vp_country, vp_max_retries>>
     /\ UNCHANGED notVpn

\* The loop is over (lines 232-233): return False.
EnsureGiveUp ==
  /\ vp_pc = "loop"
  /\ vp_attempt > vp_max_retries
  /\ vp_pc' = "returned"
  /\ vp_result' = <<FALSE>>
  /\ UNCHANGED <<vp_op, is_connected, current_server, vp_country, vp_max_retries,
                 vp_attempt, vp_commands, vp_connects, vp_sleeps, vp_status>>
  /\ UNCHANGED notVpn

VpnNext ==
  \/ \E probe \in Probes, fallback \in Fallbacks : AvailabilityCheck(probe, fallback)
  \/ \E country \in Countries, retries \in 0..MaxVpnRetries,
        probe \in Probes, fallback \in Fallbacks :
       EnsureConnection(country, retries, probe, fallback)
  \/ /\ vp_pc = "loop"
     /\ \E install \in Installs, outcome \in Connects, probe \in Probes,
           fallback \in Fallbacks, verify_probe \in Probes,
           verify_fallback \in Fallbacks :
          EnsureAttempt(install, outcome, probe, fallback, verify_probe, verify_fallback)
  \/ EnsureGiveUp

-----------------------------------------------------------------------------
\* Specifications

PricesSpecInit ==
  PricesInit /\ ReqIdle /\ ConcIdle /\ NormIdle /\ OpsIdle /\ DetIdle /\ AuthIdle
  /\ ScanIdle /\ VpnIdle

SpecPrices == PricesSpecInit /\ [][PricesNext]_vars

ReqSpecInit ==
  ReqInit /\ PricesIdle /\ ConcIdle /\ NormIdle /\ OpsIdle /\ DetIdle /\ AuthIdle
  /\ ScanIdle /\ VpnIdle

SpecReq == ReqSpecInit /\ [][ReqNext]_vars

ConcSpecInit ==
  ConcInit /\ PricesIdle /\ ReqIdle /\ NormIdle /\ OpsIdle /\ DetIdle /\ AuthIdle
  /\ ScanIdle /\ VpnIdle

SpecConc == ConcSpecInit /\ [][ConcNext]_vars

SpecSeq == ConcSpecInit /\ [][SeqNext]_vars

NormSpecInit ==
  NormInit /\ PricesIdle /\ ReqIdle /\ ConcIdle /\ OpsIdle /\ DetIdle /\ AuthIdle
  /\ ScanIdle /\ VpnIdle

SpecNorm == NormSpecInit /\ [][NormNext]_vars

OpsSpecInit ==
  OpsInit /\ PricesIdle /\ ReqIdle /\ ConcIdle /\ NormIdle /\ DetIdle /\ AuthIdle
  /\ ScanIdle /\ VpnIdle

SpecOps == OpsSpecInit /\ [][OpsNext]_vars

\* The pagination loops alone: a request that was made completes, so the
\* step that handles its response is taken.
SpecLoop == OpsSpecInit /\ [][LoopNext]_vars /\ WF_vars(PageResponse)

DetSpecInit ==
  DetInit /\ PricesIdle /\ ReqIdle /\ ConcIdle /\ NormIdle /\ OpsIdle /\ AuthIdle
  /\ ScanIdle /\ VpnIdle

SpecDetector == DetSpecInit /\ [][DetNext]_vars

SpecShared == DetSpecInit /\ [][SharedNext]_vars

AuthSpecInit ==
  AuthInit /\ PricesIdle /\ ReqIdle /\ ConcIdle /\ NormIdle /\ OpsIdle /\ DetIdle
  /\ ScanIdle /\ VpnIdle

SpecAuth == AuthSpecInit /\ [][AuthNext]_vars

ScanSpecInit ==
  ScanInit /\ PricesIdle /\ ReqIdle /\ ConcIdle /\ NormIdle /\ OpsIdle /\ DetIdle
  /\ AuthIdle /\ VpnIdle

SpecScan == ScanSpecInit /\ [][ScanNext]_vars

VpnSpecInit ==
  VpnInit /\ PricesIdle /\ ReqIdle /\ ConcIdle /\ NormIdle /\ OpsIdle /\ DetIdle
  /\ AuthIdle /\ ScanIdle

SpecVpn == VpnSpecInit /\ [][VpnNext]_vars

-----------------------------------------------------------------------------
\* Claims

\* The payloads the claim expects: one per consecutive group of ChunkSize ids,
\* holding one BUY and one SELL entry for every id of the group.
GroupPayload(g) ==
  [k \in 1..(2 * Len(g)) |->
     [token_id |-> g[(k + 1) \div 2],
      side |-> IF k % 2 = 1 THEN "BUY" ELSE "SELL"]]

NumGroups(n) == (n + ChunkSize - 1) \div ChunkSize

ExpectedPosts(ids) ==
  [g \in 1..NumGroups(Len(ids)) |->
     GroupPayload(Slice(ids, (g - 1) * ChunkSize, g * ChunkSize))]

\* C1: when get_market_prices has returned, it has issued exactly ceil(N/10)
\* POST 'prices' requests, the g-th holding exactly one BUY and one SELL entry
\* for every id of the g-th group of 10 ids and nothing else.
C1_ChunkedRequests ==
  pr_pc = "done" => post_log = ExpectedPosts(token_ids)

BackoffSleeps == SelectSeq(rq_sleeps, LAMBDA s : s.kind = "backoff")

\* C3: a 429 answer is slept on for Retry-After seconds (60 without the
\* header) and the request is retried with a wait of 2 s x attempt number
\* between attempts; the error reaches the caller only after max_retries
\* attempts have been made.
C3_RateLimitRetried ==
  (rq_pc = "raised" /\ \E k \in 1..Len(rq_responses) : IsRateLimited(rq_responses[k]))
    => /\ Len(rq_sends) = max_retries
       /\ BackoffSleeps = [a \in 1..(max_retries - 1) |->
                             [kind |-> "backoff", ms |-> BackoffMs(a)]]

\* C4: an HTTP status >= 400 other than 429 ends the call: the attempt that
\* received it is the last one, it is the only attempt when it is the first
\* answer, no backoff sleep follows it, and the error raised carries the
\* status and the body.
C4_HttpErrorNotRetried ==
  \A k \in 1..Len(rq_responses) :
    IsHttpError(rq_responses[k])
      => /\ rq_pc = "raised"
         /\ k = Len(rq_sends)
         /\ Len(BackoffSleeps) = k - 1
         /\ Val(rq_error).status = Some(rq_responses[k].status)
         /\ Val(rq_error).has_body

\* C5: no GET or POST of the Polymarket client is issued at a moment when the
\* network-availability predicate is false.
C5_NoSendWhileUnavailable ==
  (IsPoly(rq_client) /\ vpn_required)
    => \A k \in 1..Len(rq_sends) : rq_sends[k].vpn

InFlight == {t \in Tasks : task_pc[t] = "inflight"}

\* C6: on one client instance at most one request is in flight at a time, and
\* two successive sends are never closer together than the minimum
\* inter-request interval.
C6_OneInFlight ==
  /\ Cardinality(InFlight) <= 1
  /\ \A k \in 1..(Len(cc_sends) - 1) :
       cc_sends[k + 1].at - cc_sends[k].at >= ClientMinInterval(cc_client)

\* Every market the normalizers have produced: the result of the last call
\* and the list of the batch conversion.
ProducedMarkets ==
  (IF nm_result # <<>> /\ ~nm_result.raised /\ ~IsNone(nm_result.market)
     THEN {Val(nm_result.market)} ELSE {})
  \cup Range(nm_out)

InUnitRange(x) == IsNone(x) \/ (0 <= Val(x) /\ Val(x) <= Unit)

\* C8: every price field of every outcome of every market a normalizer
\* returns lies in [0,1] when present.
C8_PricesCanonical ==
  \A m \in ProducedMarkets :
    \A k \in 1..Len(m.outcomes) :
      LET o == m.outcomes[k]
      IN /\ InUnitRange(o.yes_price) /\ InUnitRange(o.no_price)
         /\ InUnitRange(o.last_trade_price)
         /\ InUnitRange(o.bid) /\ InUnitRange(o.ask)

\* The id and the title / question of a raw record of either exchange.
RawId(platform, raw) == IF platform = "kalshi" THEN raw.ticker ELSE raw.condition_id
RawTitle(platform, raw) == IF platform = "kalshi" THEN raw.title ELSE raw.question

\* A raw record lacks a non-empty id or a non-empty title / question.
Lacking(platform, raw) ==
  \/ RawId(platform, raw) \in {Missing, Null, <<>>}
  \/ RawTitle(platform, raw) \in {Missing, Null, <<>>}

\* C9: the normalizer returns absent, without raising, for every raw record
\* that lacks a non-empty id or a non-empty title / question; and a batch
\* conversion returns, in order, the markets of exactly the records of the
\* batch that lack neither.
C9_MalformedRecordSkipped ==
  /\ (nm_pc \in {"converted", "batch"} /\ nm_result # <<>>
        /\ Lacking(nm_platform, nm_raw))
       => (~nm_result.raised /\ IsNone(nm_result.market))
  /\ nm_pc \in {"batch", "batch_done"}
       => LET seen == SubSeq(nm_batch, 1, nm_idx - 1)
              kept == SelectSeq(seen, LAMBDA r : ~Lacking(nm_platform, r))
          IN /\ Len(nm_out) = Len(kept)
             /\ \A k \in 1..Len(kept) :
                  /\ nm_out[k].id = RawId(nm_platform, kept[k])
                  /\ nm_out[k].title = RawTitle(nm_platform, kept[k])

\* A batch whose first record lacks its title and whose later record was
\* still normalized and returned.
C9_Witness ==
  /\ nm_pc = "batch_done"
  /\ Len(nm_batch) >= 2
  /\ RawTitle(nm_platform, nm_batch[1]) \in {Null, <<>>}
  /\ Len(nm_out) >= 1

\* The cursors a walk over all the pages of a source carries: none on the
\* first request, then the cursor each page returned.
CursorChain(source) ==
  [j \in 1..Len(source) |-> IF j = 1 THEN "" ELSE source[j - 1].cursor]

\* A source of non-empty pages in which every page but the last carries the
\* cursor of the next page and the last carries none or, on Polymarket, the
\* end sentinel.
ChainedSource(client, source) ==
  /\ \A j \in 1..Len(source) : source[j].size > 0
  /\ \A j \in 1..(Len(source) - 1) : source[j].cursor = CursorNames[j + 1]
  /\ \/ source[Len(source)].cursor = ""
     \/ client = "polymarket" /\ source[Len(source)].cursor = EndSentinel

\* C2: over such a source of k pages get_markets_by_keyword of either client,
\* when no request fails, performs exactly k page requests, the j-th carrying
\* the cursor page j-1 returned, whatever the number of records of the pages.
C2_CursorPagination ==
  (op_pc = "done" /\ op_name = "get_markets_by_keyword" /\ op_failed = "no"
     /\ ChainedSource(op_client, op_source))
    => op_fetches = CursorChain(op_source)

\* An empty or absent result: an empty list, None or False.
EmptyOrAbsent(result) ==
  \/ result.kind \in {"none", "false"}
  \/ result.kind = "list" /\ result.n = 0

\* C7: when the request of a public operation of either client fails, the
\* operation returns an empty or absent result; nothing is raised.
C7_FailureDoesNotEscape ==
  (op_pc = "done" /\ op_failed = "request") => EmptyOrAbsent(op_result)

\* The first value of a price field over the outcomes, in order.
RECURSIVE FirstPresent(_, _, _)
FirstPresent(outcomes, field, k) ==
  IF k > Len(outcomes) THEN None
  ELSE IF ~IsNone(outcomes[k][field]) THEN outcomes[k][field]
  ELSE FirstPresent(outcomes, field, k + 1)

\* The best-available YES price the claim describes.
ExpectedBest(outcomes) ==
  IF ~IsNone(FirstPresent(outcomes, "yes_price", 1))
    THEN FirstPresent(outcomes, "yes_price", 1)
  ELSE IF ~IsNone(FirstPresent(outcomes, "last_trade_price", 1))
    THEN FirstPresent(outcomes, "last_trade_price", 1)
  ELSE IF ~IsNone(FirstPresent(outcomes, "no_price", 1))
    THEN Some(Unit - Val(FirstPresent(outcomes, "no_price", 1)))
  ELSE None

\* C10: the best-available YES price is the yes_price of the first outcome
\* that has one, else the first last_trade_price, else 1 - the first
\* no_price, else absent, whatever the order of the outcomes.
C10_BestYesPrice ==
  dt_pc = "done" => dt_best = ExpectedBest(dt_outcomes)

\* The spread of the two prices of a match, on the canonical scale.
MatchSpread(match) ==
  Abs(normalize_price(Val(match.kalshi_price))
        - normalize_price(Val(match.polymarket_price)))

\* C11: neither evaluate path emits an opportunity for a pair whose spread is
\* below the minimum-spread threshold 0.03, or for a pair one of whose prices
\* is absent.
C11_SpreadThreshold ==
  /\ (dt_op = "analyze_opportunity" /\ ~IsNone(dt_output)) =>
       /\ ~IsNone(dt_input.kalshi_price)
       /\ ~IsNone(dt_input.polymarket_price)
       /\ MatchSpread(dt_input) >= MinSpread
  /\ dt_op = "detect_arbitrage_from_pairs" =>
       \A k \in 1..Len(dt_output) :
         /\ ~IsNone(get_best_price(dt_output[k].kalshi_market.outcomes))
         /\ ~IsNone(get_best_price(dt_output[k].polymarket_market.outcomes))
         /\ Abs(dt_output[k].kalshi_price - dt_output[k].polymarket_price) >= MinSpread

\* Net profit percentage of buying at the lower and selling at the higher of
\* two prices: (gross profit - 1% of notional) / notional x 100.
NetProfitPercentage(price_a, price_b) ==
  LET buy == Min2(price_a, price_b)
      gross == (Abs(price_a - price_b) * 100 * Cent) \div buy
  IN  gross - Cent

\* C12: every opportunity emitted by an evaluate path reports a
\* profit_percentage net of the flat 1% cost, and that value is at least the
\* minimum-profit threshold 2.0.
C12_NetProfit ==
  /\ (dt_op = "analyze_opportunity" /\ ~IsNone(dt_output)) =>
       /\ Val(dt_output).profit_percentage =
            NetProfitPercentage(normalize_price(Val(dt_input.kalshi_price)),
                                normalize_price(Val(dt_input.polymarket_price)))
       /\ Val(dt_output).profit_percentage >= MinProfitPercentage
  /\ dt_op = "detect_arbitrage_from_pairs" =>
       \A k \in 1..Len(dt_output) :
         /\ dt_output[k].profit_percentage =
              NetProfitPercentage(dt_output[k].kalshi_price,
                                  dt_output[k].polymarket_price)
         /\ dt_output[k].profit_percentage >= MinProfitPercentage

\* C13: _calculate_risk_score returns a value in [0,1] for every combination
\* of similarity_score, price_difference, volumes and close dates.
C13_RiskScoreInUnitInterval ==
  dt_op = "_calculate_risk_score" =>
    /\ 0 <= Val(dt_output)
    /\ Val(dt_output) <= Unit

\* C14: for every opportunity and every capital >= 0 the sizing returns
\* optimal_investment = min(0.5 x (1 - risk_score) x capital,
\* max_position_size x capital, required_investment), which never exceeds
\* max_position_size x capital; kelly_fraction = 0.5 x (1 - risk_score)
\* whatever the profit_percentage; max_loss = optimal_investment x risk_score.
C14_BetSizing ==
  dt_op = "calculate_optimal_bet_sizing" =>
    LET opp == dt_input.opportunity
        capital == dt_input.available_capital
        limit == (capital * dt_input.max_position_size) \div Unit
        kelly == (Unit - opp.risk_score) \div 2
        out == Val(dt_output)
    IN  /\ out.optimal_investment =
             Min3((kelly * capital) \div Unit, limit, opp.required_investment)
        /\ out.optimal_investment <= limit
        /\ out.kelly_fraction = kelly
        /\ out.max_loss = (out.optimal_investment * opp.risk_score) \div Unit

\* The same match with its two markets, and their prices, exchanged.
SwapMatch(match) ==
  [match EXCEPT !.kalshi_market = match.polymarket_market,
                !.polymarket_market = match.kalshi_market,
                !.kalshi_price = match.polymarket_price,
                !.polymarket_price = match.kalshi_price]

\* The same pairs with the two ids of each exchanged.
SwapPairs(pairs) ==
  [k \in 1..Len(pairs) |->
     [kalshi_id |-> pairs[k].polymarket_id, polymarket_id |-> pairs[k].kalshi_id]]

\* The market an emitted opportunity buys and the one it sells.
BoughtMarket(opportunity) ==
  IF opportunity.buy_market = "kalshi" THEN opportunity.kalshi_market
  ELSE opportunity.polymarket_market
SoldMarket(opportunity) ==
  IF opportunity.sell_market = "kalshi" THEN opportunity.kalshi_market
  ELSE opportunity.polymarket_market

\* Two opportunities of the pairs path that agree on spread, profit and on
\* the market and price of each side.
SameDeal(o1, o2) ==
  /\ o1.spread = o2.spread
  /\ o1.profit_percentage = o2.profit_percentage
  /\ o1.buy_price = o2.buy_price
  /\ o1.sell_price = o2.sell_price
  /\ BoughtMarket(o1) = BoughtMarket(o2)
  /\ SoldMarket(o1) = SoldMarket(o2)

\* The side _calculate_arbitrage buys: the market and its price.
BoughtSide(match) ==
  LET calc == Val(calculate_arbitrage(Val(match.kalshi_price),
                                      Val(match.polymarket_price)))
  IN  <<IF calc.buy_platform = "Market 1" THEN match.kalshi_market
        ELSE match.polymarket_market,
        calc.buy_price, calc.sell_price>>

\* C15: evaluating a pair with its two markets swapped gives the same outcome:
\* an opportunity for (A,B) iff one for (B,A), with the same spread and
\* profit_percentage, and with the buy and sell sides naming the same markets
\* at the same prices.
C15_SwapSymmetry ==
  /\ dt_op = "analyze_opportunity" =>
       LET swapped == analyze_opportunity(SwapMatch(dt_input))
       IN  /\ IsNone(dt_output) <=> IsNone(swapped)
           /\ ~IsNone(dt_output) =>
                /\ Val(dt_output).price_difference = Val(swapped).price_difference
                /\ Val(dt_output).profit_percentage = Val(swapped).profit_percentage
                /\ BoughtSide(dt_input) = BoughtSide(SwapMatch(dt_input))
  /\ dt_op = "detect_arbitrage_from_pairs" =>
       LET swapped ==
             detect_arbitrage_from_pairs(SwapPairs(dt_input.pairs),
                                         dt_input.polymarket_markets,
                                         dt_input.kalshi_markets)
       IN  /\ Len(dt_output) = Len(swapped)
           /\ \A k \in 1..Len(dt_output) : SameDeal(dt_output[k], swapped[k])

\* A pair was evaluated and an opportunity that buys the second market of the
\* pair was emitted.
C15_Witness ==
  /\ dt_op = "detect_arbitrage_from_pairs"
  /\ Len(dt_output) > 0
  /\ dt_output[1].buy_market = "polymarket"

\* The text a keyword is searched in, lower-cased: title and description of
\* a Kalshi record, the question of a Polymarket record; a null or missing
\* text holds nothing.
SearchText(text) == IF text \in {Missing, Null} THEN <<>> ELSE Lower(text)

KeywordMatches(platform, keyword, raw) ==
  IF platform = "kalshi"
    THEN \/ Contains(Lower(keyword), SearchText(raw.title))
         \/ Contains(Lower(keyword), SearchText(raw.rules_primary))
    ELSE Contains(Lower(keyword), SearchText(raw.question))

\* The record normalizes successfully, whatever the prices.
Normalizable(platform, raw) ==
  ~IsNone(BatchConvert(platform, <<raw>>, raw, [t \in {1, 2} |-> NoEntry]).market)

RawIdOf(platform, raw) == IF platform = "kalshi" THEN raw.ticker ELSE raw.condition_id

\* The ids and titles of the matching, normalizable records of a page, in order.
RECURSIVE ExpectedKeywordMarkets(_, _, _, _)
ExpectedKeywordMarkets(platform, keyword, page, k) ==
  IF k > Len(page) THEN <<>>
  ELSE (IF KeywordMatches(platform, keyword, page[k]) /\ Normalizable(platform, page[k])
          THEN << <<RawIdOf(platform, page[k]),
                    IF platform = "kalshi" THEN page[k].title ELSE page[k].question>> >>
          ELSE <<>>)
       \o ExpectedKeywordMarkets(platform, keyword, page, k + 1)

\* C16: the markets get_markets_by_keyword takes from a fetched page are
\* exactly the records of the page whose title or description (Kalshi) or
\* question (Polymarket) contains the keyword, case-insensitively, and which
\* normalize: none fails the match and none that matches is left out.
C16_KeywordFilterExact ==
  nm_pc = "keyword_done" =>
    [k \in 1..Len(nm_out) |-> <<nm_out[k].id, nm_out[k].title>>]
      = ExpectedKeywordMarkets(nm_platform, nm_keyword, nm_batch, 1)

\* C17: the returned map merges the results of all chunks: when every
\* request was answered with an entry for each of its ids, the map holds the
\* entry of every requested id, of any chunk; and it holds no other key.
C17_MergesAllChunks ==
  pr_pc = "done" =>
    /\ DOMAIN all_prices \subseteq Range(token_ids)
    /\ (\A k \in 1..Len(post_outcomes) : post_outcomes[k] = "full") =>
         \A t \in Range(token_ids) :
           t \in DOMAIN all_prices /\ all_prices[t] = PriceEntry(t)

\* C18: a failed chunk is not fatal: when a price request has failed,
\* get_market_prices still returns, the request of every chunk has been
\* issued, and the entries of every request that succeeded are returned.
C18_FailedChunkNotFatal ==
  (pr_pc = "done" /\ \E k \in 1..Len(post_outcomes) : post_outcomes[k] = "fail") =>
    /\ prices_ret \in {"dict", "None"}
    /\ \A g \in 1..NumGroups(Len(token_ids)) :
         \E k \in 1..Len(post_log) : post_log[k] = ExpectedPosts(token_ids)[g]
    /\ \A k \in 1..Len(post_log) :
         post_outcomes[k] = "full" =>
           \A t \in PayloadTokens(post_log[k]) :
             t \in DOMAIN all_prices /\ all_prices[t] = PriceEntry(t)

\* The client has its API key and its private key.
KeyMaterialLoaded == au_api_key /\ au_private_key

\* C19: with key material loaded, every request sent carries a signature
\* made for that very request over timestamp + method + path, with the
\* timestamp generated by that request, which is also the timestamp header;
\* no request carries the signature of another signing operation.
C19_SignedPerRequest ==
  KeyMaterialLoaded =>
    \A k \in 1..Len(au_sent) :
      LET r == au_sent[k]
          call == au_calls[r.call]
      IN  /\ ~IsNone(r.headers)
          /\ Val(r.headers).key = au_api_key
          /\ Val(r.headers).timestamp = Val(call.timestamp)
          /\ Val(r.headers).signature.message =
               <<Val(r.headers).timestamp, r.method, r.path>>
          /\ Val(r.headers).signature # Val(au_session_headers).signature
          /\ \A j \in 1..(k - 1) :
               Val(au_sent[j].headers).signature # Val(r.headers).signature

\* Two signed requests are on the wire, the later one for another method or
\* path than the earlier one.
C19_Witness ==
  /\ KeyMaterialLoaded
  /\ Len(au_sent) = 2
  /\ <<au_sent[1].method, au_sent[1].path>> # <<au_sent[2].method, au_sent[2].path>>
  /\ au_sent[2].method = "POST"

C21_FailFast ==
  /\ [][(rq_pc = "ready" /\ rq_pc' # "ready" /\ IsPoly(rq_client')
          /\ vpn_required /\ ~vpn_connected)
        => /\ rq_pc' = "raised"
           /\ rq_sends' = <<>>
           /\ rq_sleeps' = <<>>
           /\ attempt' = 0]_vars
  /\ []((IsPoly(rq_client) /\ rq_pc = "raised" /\ attempt = 0)
        => /\ rq_sends = <<>>
           /\ rq_sleeps = <<>>
           /\ FailureResult("polymarket", "get_markets") = Result("list", 0)
           /\ FailureResult("polymarket", "get_markets_by_keyword") = Result("list", 0)
           /\ FailureResult("polymarket", "get_market_details") = Result("none", 0))

\* A Polymarket call with an open session was refused because the VPN was
\* required and not connected.
C21_Witness ==
  /\ IsPoly(rq_client)
  /\ rq_pc = "raised"
  /\ ~IsNone(rq_error)
  /\ Val(rq_error).what = "no_vpn"
  /\ rq_sends = <<>>

\* C22: when the calls on one client instance are made one after another,
\* each request is sent at least 1 / MAX_CONCURRENT_REQUESTS after the request
\* before it, on the Kalshi client and on the Polymarket client.
C22_SequentialSpacing ==
  \A k \in 1..(Len(cc_sends) - 1) :
    cc_sends[k + 1].at - cc_sends[k].at >= MinIntervalMs

\* value / 100 of the first strictly positive of three cents values, None
\* when none of them is strictly positive.
FirstPositivePrice(first, second, third) ==
  IF Positive(first) THEN Some(CentsToPrice(Val(first)))
  ELSE IF Positive(second) THEN Some(CentsToPrice(Val(second)))
  ELSE IF Positive(third) THEN Some(CentsToPrice(Val(third)))
  ELSE None

\* The last trade seen from the NO side: the complement of a last_price that
\* is there.
NoSideLastTrade(raw) ==
  IF Positive(raw.last_price) THEN Some(100 - Val(raw.last_price)) ELSE None

\* The canonical price a market carries for one side: the price field of
\* the outcome of that name, None when the market has no such outcome.
SidePrice(m, name) ==
  IF \E k \in 1..Len(m.outcomes) : m.outcomes[k].name = name
    THEN LET o == m.outcomes[CHOOSE k \in 1..Len(m.outcomes) :
                                m.outcomes[k].name = name]
         IN IF name = <<"Y","e","s">> THEN o.yes_price ELSE o.no_price
    ELSE None

\* C23: the Kalshi normalizer gives each side of a market the price
\* value / 100 of the first strictly positive value among the side's last
\* trade, ask and bid, and no price only when none of the three is strictly
\* positive.
C23_FirstPositiveOfSide ==
  (nm_pc = "converted" /\ nm_platform = "kalshi" /\ ~nm_result.raised
     /\ ~IsNone(nm_result.market)) =>
    LET m == Val(nm_result.market)
    IN /\ SidePrice(m, <<"Y","e","s">>) =
            FirstPositivePrice(nm_raw.last_price, nm_raw.yes_ask, nm_raw.yes_bid)
       /\ SidePrice(m, <<"N","o">>) =
            FirstPositivePrice(NoSideLastTrade(nm_raw), nm_raw.no_ask, nm_raw.no_bid)

\* C24: for a price p >= 0 the price guard returns p when p <= 1, p / 100
\* when 1 < p <= 100 and 1.0 when p > 100, so that its result is in [0,1].
C24_PriceGuard ==
  (dt_pc = "done" /\ dt_op = "_normalize_price" /\ dt_input.price >= 0) =>
    LET p == dt_input.price
        r == Val(dt_output)
    IN /\ p <= Unit => r = p
       /\ (Unit < p /\ p <= 100 * Unit) => r = p \div 100
       /\ p > 100 * Unit => r = Unit
       /\ 0 <= r /\ r <= Unit

\* The guard was called with a price above 100 and returned 1.0.
C24_Witness ==
  /\ dt_pc = "done"
  /\ dt_op = "_normalize_price"
  /\ dt_input.price > 100 * Unit
  /\ dt_output = Some(Unit)

PairOpportunityOf(o) ==
  LET lower == Min2(o.kalshi_price, o.polymarket_price)
      higher == IF o.kalshi_price < o.polymarket_price
                  THEN o.polymarket_price ELSE o.kalshi_price
  IN /\ o.buy_price = lower /\ o.sell_price = higher
     /\ o.buy_price < o.sell_price
     /\ o.buy_market = (IF o.kalshi_price = lower THEN "kalshi" ELSE "polymarket")
     /\ o.sell_market = (IF o.kalshi_price = lower THEN "polymarket" ELSE "kalshi")
     /\ o.buy_market # o.sell_market
     /\ o.profit_per_dollar = o.sell_price - o.buy_price
     /\ o.profit_per_dollar = o.spread

\* C26: every opportunity buys in the market with the lower price and sells
\* in the one with the higher price, at buy_price < sell_price, and its profit
\* per unit is sell_price - buy_price, the spread; prices 0.40 and 0.55 give
\* spread 0.15, buy the first at 0.40, sell the second at 0.55.
C26_BuyLowSellHigh ==
  /\ (dt_pc = "done" /\ dt_op = "detect_arbitrage_from_pairs") =>
        /\ \A k \in 1..Len(dt_output) : PairOpportunityOf(dt_output[k])
        /\ \A k \in 1..Len(dt_output) :
             (/\ dt_output[k].kalshi_price = (40 * Unit) \div 100
              /\ dt_output[k].polymarket_price = (55 * Unit) \div 100) =>
               /\ dt_output[k].spread = (15 * Unit) \div 100
               /\ dt_output[k].buy_market = "kalshi"
               /\ dt_output[k].buy_price = (40 * Unit) \div 100
               /\ dt_output[k].sell_market = "polymarket"
               /\ dt_output[k].sell_price = (55 * Unit) \div 100
               /\ dt_output[k].profit_per_dollar = (15 * Unit) \div 100
        /\ (/\ Len(dt_input.pairs) > 0
            /\ dt_input.pairs[1].kalshi_id = "k1"
            /\ get_best_price(dt_input.kalshi_markets[1].outcomes)
                 = Some((40 * Unit) \div 100)
            /\ get_best_price(dt_input.polymarket_markets[1].outcomes)
                 = Some((55 * Unit) \div 100)) =>
             /\ Len(dt_output) > 0
             /\ dt_output[1].kalshi_price = (40 * Unit) \div 100
             /\ dt_output[1].polymarket_price = (55 * Unit) \div 100
  /\ (dt_pc = "done" /\ dt_op = "_calculate_arbitrage" /\ ~IsNone(dt_output)) =>
        LET r == Val(dt_output)
            p1 == normalize_price(dt_input.price1)
            p2 == normalize_price(dt_input.price2)
        IN /\ r.buy_price = Min2(p1, p2)
           /\ r.sell_price = (IF p1 < p2 THEN p2 ELSE p1)
           /\ r.buy_price < r.sell_price
           /\ r.buy_platform = (IF p1 < p2 THEN "Market 1" ELSE "Market 2")
           /\ r.sell_platform = (IF p1 < p2 THEN "Market 2" ELSE "Market 1")
           /\ (dt_input.price1 = (40 * Unit) \div 100
                 /\ dt_input.price2 = (55 * Unit) \div 100) =>
                /\ r.buy_platform = "Market 1"
                /\ r.buy_price = (40 * Unit) \div 100
                /\ r.sell_price = (55 * Unit) \div 100

\* A pair priced 0.40 and 0.55 was turned into an opportunity.
C26_Witness ==
  /\ dt_pc = "done"
  /\ dt_op = "detect_arbitrage_from_pairs"
  /\ Len(dt_output) > 0
  /\ dt_output[1].kalshi_price = (40 * Unit) \div 100
  /\ dt_output[1].polymarket_price = (55 * Unit) \div 100
  /\ dt_output[1].spread = (15 * Unit) \div 100

\* The risk score of the same call with the close dates taken away.
RiskWithoutCloseDates(match, market1, market2) ==
  calculate_risk_score(match, [market1 EXCEPT !.close_date = None],
                       [market2 EXCEPT !.close_date = None])

\* Both close dates are known and more than 7 x 24 hours apart.
CloseDatesApart(market1, market2) ==
  /\ ~IsNone(market1.close_date)
  /\ ~IsNone(market2.close_date)
  /\ Abs(Val(market1.close_date) - Val(market2.close_date)) > 7 * 24

\* C27: the risk score holds the 0.3 close-date term exactly when both close
\* dates are known and differ by more than 7 days, 7 days and 12 hours
\* included.
C27_CloseDateTerm ==
  (dt_pc = "done" /\ dt_op = "_calculate_risk_score") =>
    LET base == RiskWithoutCloseDates(dt_input.match, dt_input.market1,
                                      dt_input.market2)
        term == IF CloseDatesApart(dt_input.market1, dt_input.market2)
                  THEN (3 * Unit) \div 10 ELSE 0
    IN Val(dt_output) = Min2(base + term, Unit)

\* The risk score of the same match without a price_difference entry.
RiskWithoutPriceEntry(match) ==
  calculate_risk_score([match EXCEPT !.price_difference = None],
                       match.kalshi_market, match.polymarket_market)

\* C28: the risk score of an emitted opportunity holds the 0.3 data-quality
\* term exactly when the difference of the two prices of the match exceeds
\* 0.30, with or without a price_difference entry in the match.
C28_PriceDifferenceTerm ==
  (dt_pc = "done" /\ dt_op = "analyze_opportunity" /\ ~IsNone(dt_output)) =>
    LET raw_difference ==
          Abs(Val(dt_input.kalshi_price) - Val(dt_input.polymarket_price))
        term == IF raw_difference > (3 * Unit) \div 10
                  THEN (3 * Unit) \div 10 ELSE 0
    IN Val(dt_output).risk_score = Min2(RiskWithoutPriceEntry(dt_input) + term, Unit)

\* The similarity the risk term 0.4 x (1 - similarity) is computed from:
\* match.get('similarity_score', 0.5).
RiskSimilarity(match) ==
  IF IsNone(match.similarity_score) THEN Unit \div 2
  ELSE Val(match.similarity_score)

\* C29: in every emitted opportunity confidence_score and similarity_score
\* are equal, and equal to the similarity of the risk term: the one the match
\* supplies, 0.5 when it supplies none.
C29_ConfidenceIsSimilarity ==
  (dt_pc = "done" /\ dt_op = "analyze_opportunity" /\ ~IsNone(dt_output)) =>
    /\ Val(dt_output).confidence_score = Val(dt_output).similarity_score
    /\ Val(dt_output).similarity_score = RiskSimilarity(dt_input)

C31_StatusCanonical ==
  /\ \A m \in ProducedMarkets : m.status \in {"active", "closed", "settled", "paused"}
  /\ (/\ nm_pc = "converted"
      /\ nm_platform = "kalshi"
      /\ nm_raw \in DatedRawKalshi
      /\ Field(nm_raw, "status") \in {Missing, Null, <<>>, <<"h","a","l","t","e","d">>}
      /\ Field(nm_raw, "close_time") # NotText) =>
       /\ ~nm_result.raised
       /\ ~IsNone(nm_result.market)
       /\ Val(nm_result.market).status = "active"

\* A timestamp value that cannot be parsed: a text that is no timestamp, or a
\* value that is not a string.
Unparseable == {<<"s","o","o","n">>, NotText}

\* C32: a record whose close timestamp (close_time of Kalshi, end_date_iso of
\* Polymarket) cannot be parsed is normalized exactly as the same record
\* without that timestamp: the same result, whose close_date is unset.
C32_BadTimestampOnlyUnsetsField ==
  /\ (/\ nm_pc = "converted" /\ nm_platform = "kalshi" /\ nm_raw \in DatedRawKalshi
      /\ nm_raw.close_time \in Unparseable) =>
       nm_result = KalshiConvert([nm_raw EXCEPT !.close_time = Missing])
  /\ (/\ nm_pc = "converted" /\ nm_platform = "polymarket" /\ nm_raw \in DatedRawPoly
      /\ nm_raw.end_date_iso \in Unparseable) =>
       nm_result = PolyConvert([nm_raw EXCEPT !.end_date_iso = Missing], nm_prices)

\* The title of the record the last call converted.
ConvertedTitle == IF nm_platform = "kalshi" THEN nm_raw.title ELSE nm_raw.question

\* C33: the primary question of a normalized market is the one both
\* normalizers extract from its title: the two extractions agree on every
\* title.
C33_SamePrimaryQuestion ==
  (/\ nm_pc = "converted"
   /\ ~nm_result.raised
   /\ ~IsNone(nm_result.market)) =>
     /\ Val(nm_result.market).primary_question = KalshiPrimaryQuestion(ConvertedTitle)
     /\ Val(nm_result.market).primary_question = PolyPrimaryQuestion(ConvertedTitle)

\* C34: in one scan the two fetches are concurrent tasks: a fetch does not
\* start only after the other has finished, and a fetch that raises does not
\* keep the other from running and from contributing the markets it returns.
C34_IndependentFetches ==
  /\ [][(sc_poly = "pending" /\ sc_poly' = "running") =>
          sc_kalshi \notin {"returned", "raised"}]_vars
  /\ [](sc_pc = "reported" =>
          /\ sc_poly \in {"returned", "raised"}
          /\ sc_kalshi \in {"returned", "raised"}
          /\ ~sc_found.poly.raised =>
               sc_poly_markets = Truncated(sc_found.poly.n, sc_limit)
          /\ ~sc_found.kalshi.raised =>
               sc_kalshi_markets = Truncated(sc_found.kalshi.n, sc_limit))

\* C39: the availability check made before a Polymarket request runs no
\* command that asks NordVPN to connect, whatever the interface query does.
C39_CheckOnlyObserves ==
  (vp_op = "get_status" /\ vp_pc = "returned") =>
    \A k \in 1..Len(vp_commands) : vp_commands[k] \notin ConnectCommands

\* The sleeps of a call that made n passes of the loop without success.
SleepsAfter(n) == [k \in 1..n |-> 2 * k]

\* C40: ensure_connection calls connect at most max_retries times, returns
\* True only when the last status check reported connected, sleeps 2 x attempt
\* seconds after every failed attempt but the last, and never raises: when no
\* connection is established it returns False.
C40_EnsureConnection ==
  vp_op = "ensure_connection" =>
    /\ vp_connects <= vp_max_retries
    /\ vp_pc # "raised"
    /\ (vp_pc = "returned" /\ vp_result = <<TRUE>>) =>
         (vp_status # <<>> /\ vp_status[1].connected)
    /\ (vp_pc = "returned" /\ vp_result = <<FALSE>>) =>
         /\ vp_connects = vp_max_retries
         /\ vp_sleeps = SleepsAfter(IF vp_max_retries = 0 THEN 0 ELSE vp_max_retries - 1)

\* The number of the first k answers that were failures.
FailedAmong(k) == Cardinality({j \in 1..k : ~IsSuccess(rq_responses[j])})

\* C35: a call of PolymarketClient._make_request or _make_post_request with
\* max_retries = m makes at most m attempts; the waits of its except handler
\* are 2 x k seconds after the k-th failed attempt for k < m and none after the
\* m-th, whose exception is the one raised; a successful attempt is the last
\* attempt and the call returns with it.
C35_RetrySchedule ==
  (IsPoly(rq_client) /\ attempt > 0) =>
    /\ Len(rq_sends) <= max_retries
    /\ \A k \in 1..(Len(rq_responses) - 1) : ~IsSuccess(rq_responses[k])
    /\ BackoffSleeps =
         [k \in 1..FailedAmong(Min2(Len(rq_responses), max_retries - 1)) |->
            [kind |-> "backoff", ms |-> 2 * 1000 * k]]
    /\ rq_pc = "raised" =>
         /\ Len(rq_sends) = max_retries
         /\ Len(rq_responses) = max_retries
         /\ rq_error = Some(AttemptError(rq_client, rq_responses[max_retries]))
         /\ rq_sleeps[Len(rq_sleeps)].kind # "backoff"
    /\ rq_pc = "returned" =>
         /\ Len(rq_responses) = Len(rq_sends)
         /\ IsSuccess(rq_responses[Len(rq_responses)])

\* A Polymarket call with the default max_retries has raised after three
\* failed attempts and two backoff waits.
C35_Witness ==
  /\ IsPoly(rq_client)
  /\ rq_pc = "raised"
  /\ max_retries = DefaultMaxRetries
  /\ Len(rq_sends) = DefaultMaxRetries
  /\ Len(BackoffSleeps) = DefaultMaxRetries - 1

\* C36: PolymarketClient.get_markets called with a limit L > 0 returns at most
\* L markets.
C36_LimitRespected ==
  (/\ op_pc = "done"
   /\ op_client = "polymarket"
   /\ op_name = "get_markets"
   /\ op_limit > 0
   /\ op_result.kind = "list") =>
     op_result.n <= op_limit

\* C37: a pagination loop whose every request completes returns.
C37_PaginationReturns == (op_pc = "fetching") ~> (op_pc = "done")

\* The number of records on the first k pages that were fetched.
RECURSIVE FetchedSizes(_)
FetchedSizes(k) ==
  IF k = 0 THEN 0
  ELSE FetchedSizes(k - 1) + ServerPage(op_source, op_fetches[k]).size

\* C38: when a page request of a paginated listing fails, the markets of the
\* pages fetched before it are not returned: Polymarket returns the empty
\* list and Kalshi raises.  A non-empty list that is returned comes from a
\* listing none of whose requests failed and, without a limit, holds the
\* records of every page fetched.
C38_NoPartialAccumulation ==
  (op_pc = "done" /\ Paged(op_client, op_name)) =>
    /\ op_failed = "request" =>
         op_result = IF op_client = "kalshi" THEN Result("raised", 0)
                     ELSE Result("list", 0)
    /\ (op_result.kind = "list" /\ op_result.n > 0) =>
         /\ op_failed = "no"
         /\ op_limit = 0 => op_result.n = FetchedSizes(Len(op_fetches))

\* The request of the second page of a Polymarket listing failed after the
\* first page had added markets, and the empty list was returned.
C38_Witness ==
  /\ op_pc = "done"
  /\ op_client = "polymarket"
  /\ Paged(op_client, op_name)
  /\ op_failed = "request"
  /\ Len(op_fetches) >= 2
  /\ op_all_markets > 0
  /\ op_result = Result("list", 0)

====
